---- MODULE Spec2Model ----
(***************************************************************************)
(* safeshell: the checkpoint lifecycle engine.                             *)
(*                                                                         *)
(* The model covers the checkpoint store (Create, Get, GetLatest, Delete,  *)
(* tags and notes, Compress, Decompress), the persisted checkpoint index,  *)
(* the backup engine (hard link first, copy as fallback) and the rollback  *)
(* engine, over a small file system in which hard links are explicit:      *)
(* a path names an inode, and two paths naming the same inode share its    *)
(* bytes and its mode.                                                     *)
(***************************************************************************)
EXTENDS Integers, Sequences, FiniteSets, TLC

\* ------------------------------------------------------------------------
\* Bounds of the model
\* ------------------------------------------------------------------------
MaxCheckpoints == 2
MaxSeq == 4
MaxTime == 1
MaxExtOps == 1
MaxTargets == 2

\* ------------------------------------------------------------------------
\* Checkpoint identifiers.  An ID is a timestamp (to the second) and a random
\* suffix; the rebuild compares IDs only when the full timestamps are equal,
\* so an ID is modelled by its random suffix and IdRank is the string order.
\* ------------------------------------------------------------------------
IdNames == <<"c1", "c2", "c3", "c4">>
Ids == {IdNames[i] : i \in 1..MaxCheckpoints}
IdRank(id) == CHOOSE i \in 1..Len(IdNames) : IdNames[i] = id

\* ------------------------------------------------------------------------
\* Paths are sequences of names.  The user's tree lives under the working
\* directory /w, the checkpoints under /ck (config.GetCheckpointsDir).
\* ------------------------------------------------------------------------
WorkingDir == <<"w">>
Proj == <<"w", "proj">>
ProjA == <<"w", "proj", "a.txt">>
ProjGit == <<"w", "proj", ".git">>
ProjGitCfg == <<"w", "proj", ".git", "config">>
ProjLnk == <<"w", "proj", "lnk">>
Build == <<"w", "build">>
BuildB == <<"w", "build", "b.txt">>
\* a target whose last name is longer than NAME_MAX: stat fails with
\* ENAMETOOLONG, an error that is not "does not exist"
LongName == <<"w", "name-longer-than-255-bytes">>
\* two files outside the working directory: the absolute path of the
\* second, /w2.txt, begins with the characters of the working directory's
Other == <<"o.txt">>
Sibling == <<"w2.txt">>

CheckpointsDir == <<"ck">>
DestRoot == <<"dst">>

\* filepath.Walk visits a tree in lexical order, a directory before its
\* children
WalkOrder ==
    << Other, WorkingDir, Build, BuildB, Proj, ProjGit, ProjGitCfg, ProjA,
       ProjLnk, Sibling >>

Range(s) == {s[i] : i \in 1..Len(s)}
OrigPaths == Range(WalkOrder)

\* filepath.Clean of a rooted path, which filepath.Join applies to its
\* result: "." is dropped, ".." drops the name before it and is itself
\* dropped at the root
RECURSIVE CleanFrom(_, _)
CleanFrom(done, rest) ==
    IF rest = <<>> THEN done
    ELSE IF Head(rest) = "." THEN CleanFrom(done, Tail(rest))
    ELSE IF Head(rest) = ".."
    THEN CleanFrom(IF done = <<>> THEN <<>>
                   ELSE SubSeq(done, 1, Len(done) - 1), Tail(rest))
    ELSE CleanFrom(Append(done, Head(rest)), Tail(rest))
CleanPath(p) == CleanFrom(<<>>, p)

\* a relative path is written with a leading "."; Create joins it to the
\* working directory
IsAbs(targetPath) == targetPath = <<>> \/ Head(targetPath) # "."
AbsPath(targetPath) ==
    IF IsAbs(targetPath) THEN targetPath
    ELSE CleanPath(WorkingDir \o targetPath)

CheckpointDir(id) == <<"ck", id>>
GetFilesDir(id) == <<"ck", id, "files">>
\* Create: backupPath = filesDir joined with the absolute path less its "/"
BackupPathOf(id, abs) == CleanPath(GetFilesDir(id) \o abs)

RelToWorkingDir(p) == SubSeq(p, Len(WorkingDir) + 1, Len(p))
DestPaths ==
    {DestRoot} \cup {DestRoot \o RelToWorkingDir(p) : p \in OrigPaths}
    \cup {d \o p : d \in {DestRoot, WorkingDir},
                   p \in {Other, Sibling, <<"2.txt">>}}

Paths ==
    OrigPaths \cup {CheckpointsDir} \cup DestPaths
    \cup {CheckpointDir(id) : id \in Ids}
    \cup {GetFilesDir(id) : id \in Ids}
    \cup {BackupPathOf(id, p) : id \in Ids, p \in OrigPaths}

Base(p) == p[Len(p)]
Parent(p) == SubSeq(p, 1, Len(p) - 1)
IsPrefix(q, p) == Len(q) <= Len(p) /\ SubSeq(p, 1, Len(q)) = q
Rel(src, p) == SubSeq(p, Len(src) + 1, Len(p))
Prefixes(p) == {SubSeq(p, 1, k) : k \in 1..Len(p)}

\* ------------------------------------------------------------------------
\* Permission bits, file contents
\* ------------------------------------------------------------------------
M000 == {}
M644 == {"ur", "uw"}
M664 == {"ur", "uw", "gw"}
M755 == {"ur", "uw", "ux"}
SymlinkMode == {"L", "ur", "uw", "ux", "gw"}
FileModes == {M644, M664, M755}
Umasks == {{}, {"gw"}}

Bytes == {"A", "B"}
\* a content of 101 MiB, above the default max_file_size_mb
Huge == "H"
MiB == 1048576
Size(b) == IF b = "" THEN 0 ELSE IF b = Huge THEN 101 * MiB ELSE 1

\* ------------------------------------------------------------------------
\* File system nodes
\* ------------------------------------------------------------------------
NoNode == [kind |-> "none"]
DirNode(m) == [kind |-> "dir", mode |-> m]
FileNode(i) == [kind |-> "file", ino |-> i]
SymNode == [kind |-> "symlink"]
\* a symlink whose target is a path of the model
LinkNode(to) == [kind |-> "symlink", to |-> to]

Inos == 1..Cardinality(Paths)
FreeIno == [bytes |-> "", mode |-> {}]

NoManifest == [id |-> "none"]
NoArchive == [state |-> "none", entries |-> <<>>]
NoEntry == [id |-> "none"]
NoHandle == [id |-> "none"]

VARIABLES
    fs,         \* path -> node: the whole file system
    inodes,     \* inode -> [bytes, mode]
    umask,      \* the process umask
    linkOK,     \* whether the checkpoints directory is on the files' volume
    manifests,  \* checkpoint id -> the persisted manifest.json
    archives,   \* checkpoint id -> the persisted files.tar.gz
    idx,        \* the in-memory global Index of this process
    idxFile,    \* the persisted .index.json
    handle,     \* a *Checkpoint held by the caller
    now,        \* the clock
    usedIds,    \* IDs generated so far
    extOps,     \* number of changes made to the user's tree from outside
    threads,    \* the goroutines of this process working on the Index
    server,     \* the tool-call server: lines read, lines written
    last,       \* the last operation and its outcome
    snap,       \* checkpoint id -> the user's files as they were at Create
    order       \* the IDs of the checkpoints created, oldest first

vars == << fs, inodes, umask, linkOK, threads, server, manifests, archives,
           idx, idxFile, handle, now, usedIds, extOps, last, snap, order >>

\* ------------------------------------------------------------------------
\* The file system, as a value D = [fs, ino] threaded through the helpers
\* ------------------------------------------------------------------------
Disk == [fs |-> fs, ino |-> inodes]

Exists(D, p) == p \in Paths /\ D.fs[p].kind # "none"
IsDirAt(D, p) == p \in Paths /\ D.fs[p].kind = "dir"
IsFileAt(D, p) == p \in Paths /\ D.fs[p].kind = "file"
\* the path a system call that follows symlinks acts on
Target(D, p) ==
    IF p \in Paths /\ D.fs[p].kind = "symlink" /\ D.fs[p] # SymNode
    THEN D.fs[p].to ELSE p
UsedInos(F) == {F[p].ino : p \in {q \in Paths : F[q].kind = "file"}}
FreshIno(D) ==
    LET free == Inos \ UsedInos(D.fs)
    IN  CHOOSE i \in free : \A j \in free : i <= j
BytesAt(D, p) == D.ino[D.fs[p].ino].bytes
ModeAt(D, p) ==
    IF D.fs[p].kind = "file" THEN D.ino[D.fs[p].ino].mode
    ELSE IF D.fs[p].kind = "dir" THEN D.fs[p].mode
    ELSE SymlinkMode
\* inodes no path names are released
Collect(D) ==
    LET used == UsedInos(D.fs)
    IN  [D EXCEPT !.ino = [i \in Inos |-> IF i \in used THEN D.ino[i]
                                           ELSE FreeIno]]

\* os.MkdirAll: every missing directory on the way gets perm less the umask
MkdirAll(D, p, perm) ==
    [D EXCEPT !.fs = [q \in Paths |->
        IF IsPrefix(q, p) /\ D.fs[q].kind = "none"
        THEN DirNode(perm \ umask) ELSE D.fs[q]]]

\* an entry cannot be unlinked from a directory without write permission
Blocked(D, q) ==
    /\ Exists(D, q)
    /\ Len(q) > 1
    /\ IsDirAt(D, Parent(q))
    /\ "uw" \notin D.fs[Parent(q)].mode

\* os.RemoveAll: everything at and below p goes, except what cannot be
\* unlinked and the directories that are therefore not empty
RemoveAll(D, p) ==
    [D EXCEPT !.fs = [q \in Paths |->
        IF /\ IsPrefix(p, q)
           /\ ~\E b \in Paths : /\ IsPrefix(p, b) /\ IsPrefix(q, b)
                                /\ Blocked(D, b)
        THEN NoNode ELSE D.fs[q]]]

copyFile(D, src, dst) ==
    IF ~IsFileAt(D, src) \/ "ur" \notin ModeAt(D, src)
    THEN [d |-> D, err |-> TRUE]                  \* os.Open(src) fails
    ELSE IF D.fs[Target(D, dst)].kind = "file"
    THEN \* O_TRUNC empties the inode dst names, then the bytes of src are
         \* read and written; when dst names the inode of src, src is empty
         LET j == D.fs[Target(D, dst)].ino
             T == [D.ino EXCEPT ![j].bytes = ""]
         IN  [d |-> [D EXCEPT !.ino = [T EXCEPT ![j].bytes =
                                            T[D.fs[src].ino].bytes]],
              err |-> FALSE]
    ELSE IF /\ D.fs[Target(D, dst)].kind = "none"
            /\ \/ Len(Target(D, dst)) = 1
               \/ IsDirAt(D, Parent(Target(D, dst)))
    THEN \* O_CREATE makes the file; through a symlink whose target is
         \* missing it makes the target
         LET k == FreshIno(D)
         IN  [d |-> [fs |-> [D.fs EXCEPT ![Target(D, dst)] = FileNode(k)],
                     ino |-> [D.ino EXCEPT ![k] =
                                [bytes |-> BytesAt(D, src),
                                 mode |-> ModeAt(D, src) \ umask]]],
              err |-> FALSE]
    ELSE [d |-> D, err |-> TRUE]                  \* dst is a directory

\* BackupFile without its fallback: a failed hard link is not copied
BackupFile_NoFallback(D, srcPath, dstPath) ==
    LET D1 == MkdirAll(D, Parent(dstPath), M755)
    IN  IF linkOK /\ IsFileAt(D1, srcPath) /\ D1.fs[dstPath].kind = "none"
        THEN [d |-> [D1 EXCEPT !.fs[dstPath] = FileNode(D1.fs[srcPath].ino)],
              err |-> FALSE]
        ELSE [d |-> D1, err |-> FALSE]

BackupFile(D, srcPath, dstPath) ==
    LET D1 == MkdirAll(D, Parent(dstPath), M755)
    IN  IF linkOK /\ IsFileAt(D1, srcPath) /\ D1.fs[dstPath].kind = "none"
        THEN [d |-> [D1 EXCEPT !.fs[dstPath] = FileNode(D1.fs[srcPath].ino)],
              err |-> FALSE]                      \* os.Link succeeded
        ELSE copyFile(D1, srcPath, dstPath)

\* ------------------------------------------------------------------------
\* Path classifier
\* ------------------------------------------------------------------------
DefaultExclusions ==
    { ".build", "build", "dist", "out", "target", "node_modules", "vendor",
      ".venv", "venv", "__pycache__", ".pytest_cache", ".idea", ".vscode",
      ".git", ".svn", ".hg", ".DS_Store", "Thumbs.db", ".cache", ".npm",
      ".yarn", ".cargo", "DerivedData", ".safeshell" }
shouldExclude(p) == Base(p) \in DefaultExclusions
isSymlink(D, p) == D.fs[p].kind = "symlink"
\* no name of the tree ends in ".framework"
HasFrameworkSuffix(p) == FALSE
shouldSkipPath(D, p) ==
    IF isSymlink(D, p) THEN [skip |-> TRUE, skipDir |-> FALSE]
    ELSE IF shouldExclude(p)
    THEN [skip |-> TRUE, skipDir |-> IsDirAt(D, p)]
    ELSE IF HasFrameworkSuffix(p) /\ IsDirAt(D, p)
    THEN [skip |-> TRUE, skipDir |-> TRUE]
    ELSE [skip |-> FALSE, skipDir |-> FALSE]

\* the paths filepath.Walk(root) visits, in order
WalkOf(D, root) ==
    SelectSeq(WalkOrder, LAMBDA p : IsPrefix(root, p) /\ Exists(D, p))

RECURSIVE BackupWalk(_, _, _, _, _)
BackupWalk(D, srcPath, dstPath, todo, pruned) ==
    IF todo = <<>> THEN [d |-> D, err |-> FALSE]
    ELSE LET p == Head(todo)
             sk == shouldSkipPath(D, p)
             targetPath == dstPath \o Rel(srcPath, p)
         IN  IF \E q \in pruned : IsPrefix(q, p)
             THEN BackupWalk(D, srcPath, dstPath, Tail(todo), pruned)
             ELSE IF sk.skip
             THEN BackupWalk(D, srcPath, dstPath, Tail(todo),
                             IF sk.skipDir THEN pruned \cup {p} ELSE pruned)
             ELSE IF IsDirAt(D, p)
             THEN BackupWalk(MkdirAll(D, targetPath, ModeAt(D, p)),
                             srcPath, dstPath, Tail(todo), pruned)
             ELSE LET r == BackupFile(D, p, targetPath)
                  IN  IF r.err THEN r
                      ELSE BackupWalk(r.d, srcPath, dstPath, Tail(todo),
                                      pruned)

BackupDir(D, srcPath, dstPath) ==
    BackupWalk(D, srcPath, dstPath, WalkOf(D, srcPath), {})

\* ------------------------------------------------------------------------
\* Manifest
\* ------------------------------------------------------------------------
FileEntry(originalPath, backupPath, mode, size, isDir) ==
    [originalPath |-> originalPath, backupPath |-> backupPath,
     mode |-> mode, size |-> size, isDir |-> isDir]

\* a command is a string, modelled as the sequence of its characters
DefaultCommand == << "r", "m" >>

NewManifest(id, files) ==
    [id |-> id, timestamp |-> now, files |-> files, rolledBack |-> FALSE,
     tags |-> <<>>, note |-> "", compressed |-> FALSE, compressedSize |-> 0,
     command |-> DefaultCommand]

Checkpoint(id, m) == [id |-> id, manifest |-> m]

\* LoadManifest fails when the directory holds no manifest.json
LoadManifest(M, id) == M[id]

\* Get(id): the handle, or NoHandle for "checkpoint not found"
Get(M, id) ==
    IF LoadManifest(M, id) = NoManifest THEN NoHandle
    ELSE Checkpoint(M[id].id, M[id])

\* ------------------------------------------------------------------------
\* Index
\* ------------------------------------------------------------------------
EmptyEntries == [id \in Ids |-> NoEntry]
NewIndex == [loaded |-> FALSE, entries |-> EmptyEntries, nextSeq |-> 0]
IndexIds(I) == {id \in Ids : I.entries[id] # NoEntry}

RECURSIVE SumSizes(_)
SumSizes(files) ==
    IF files = <<>> THEN 0
    ELSE (IF Head(files).isDir THEN 0 ELSE Head(files).size)
         + SumSizes(Tail(files))
CountFiles(files) == Cardinality({i \in 1..Len(files) : ~files[i].isDir})

IndexEntry(id, m, seq) ==
    [id |-> id, ts |-> m.timestamp, seq |-> seq,
     fileCount |-> CountFiles(m.files), totalSize |-> SumSizes(m.files),
     tags |-> m.tags, rolledBack |-> m.rolledBack,
     compressed |-> m.compressed, compressedSize |-> m.compressedSize]

\* rebuildLocked ordering its entries by ID alone
SwapRebuild_ById(ej, ei) == IdRank(ej.id) < IdRank(ei.id)

\* rebuildLocked: tempEntries[j] goes before tempEntries[i]
SwapRebuild(ej, ei) ==
    \/ ej.ts < ei.ts
    \/ ej.ts = ei.ts /\ IdRank(ej.id) < IdRank(ei.id)
\* ListEntries: entries[j] goes before entries[i]
SwapList(ej, ei) ==
    \/ ej.ts > ei.ts
    \/ ej.ts = ei.ts /\ ej.seq > ei.seq
ShouldSwap(mode, ej, ei) ==
    IF mode = "rebuild" THEN SwapRebuild(ej, ei) ELSE SwapList(ej, ei)

\* the exchange sort both functions spell out
RECURSIVE SortInner(_, _, _, _)
SortInner(s, i, j, mode) ==
    IF j > Len(s) THEN s
    ELSE SortInner(IF ShouldSwap(mode, s[j], s[i])
                   THEN [s EXCEPT ![i] = s[j], ![j] = s[i]] ELSE s,
                   i, j + 1, mode)
RECURSIVE SortOuter(_, _, _)
SortOuter(s, i, mode) ==
    IF i >= Len(s) THEN s
    ELSE SortOuter(SortInner(s, i, i + 1, mode), i + 1, mode)

saveLocked(I) == [state |-> "ok", entries |-> I.entries, nextSeq |-> I.nextSeq]

CheckpointDirIds(D) == {id \in Ids : IsDirAt(D, CheckpointDir(id))}

\* the index and its file travel together as X = [idx, file]
Saved(I) == [idx |-> I, file |-> saveLocked(I)]

\* Add and Remove drop saveLocked's error: a file that os.WriteFile cannot
\* open (mode 000) stays what it was
SavedTo(I, file) ==
    [idx |-> I,
     file |-> IF file.state = "unreadable" THEN file ELSE saveLocked(I)]

\* rebuildLocked, second half: sequences in sorted order
Sequenced(sorted) ==
    [loaded |-> TRUE,
     entries |-> [id \in Ids |->
         IF \E i \in 1..Len(sorted) : sorted[i].id = id
         THEN LET i == CHOOSE k \in 1..Len(sorted) : sorted[k].id = id
              IN  [sorted[i] EXCEPT !.seq = i - 1]
         ELSE NoEntry],
     nextSeq |-> Len(sorted)]

\* rebuildLocked, first half: one entry per directory with a manifest
TempEntries(listed, M) ==
    [i \in 1..Len(listed) |-> IndexEntry(listed[i], M[listed[i]], 0)]

rebuildLocked(D, M) ==
    Saved(Sequenced(SortOuter(
        TempEntries(SelectSeq(IdNames, LAMBDA id :
                        id \in CheckpointDirIds(D)
                        /\ LoadManifest(M, id) # NoManifest), M),
        1, "rebuild")))

isStale(I, D) == Cardinality(CheckpointDirIds(D)) # Cardinality(IndexIds(I))

\* Load: a read error other than "not exist" is returned as it is, and
\* GetIndex drops it: the Index stays as GetIndex made it, without entries
Load(X, D, M) ==
    IF X.file.state = "unreadable"
    THEN [idx |-> [loaded |-> TRUE, entries |-> EmptyEntries, nextSeq |-> 0],
          file |-> X.file]
    ELSE
    IF X.file.state = "missing" \/ X.file.state = "corrupt"
       \/ isStale([loaded |-> TRUE, entries |-> X.file.entries,
                   nextSeq |-> X.file.nextSeq], D)
    THEN rebuildLocked(D, M)
    ELSE [idx |-> [loaded |-> TRUE, entries |-> X.file.entries,
                   nextSeq |-> X.file.nextSeq],
          file |-> X.file]

GetIndex(X, D, M) == IF X.idx.loaded THEN X ELSE Load(X, D, M)

\* Add reusing the sequence number it drew
IndexAdd_NoBump(X, cp) ==
    SavedTo([X.idx EXCEPT
               !.entries[cp.id] = IndexEntry(cp.id, cp.manifest, X.idx.nextSeq)],
            X.file)

IndexAdd(X, cp) ==
    SavedTo([X.idx EXCEPT
               !.entries[cp.id] = IndexEntry(cp.id, cp.manifest, X.idx.nextSeq),
               !.nextSeq = @ + 1],
            X.file)

IndexUpdate(X, cp) == IndexAdd(X, cp)

IndexRemove(X, id) ==
    SavedTo([X.idx EXCEPT !.entries[id] = NoEntry], X.file)

\* ListEntries collects the map in an arbitrary order and sorts it
Perms(S) ==
    {s \in [1..Cardinality(S) -> S] : \A i, j \in DOMAIN s : s[i] = s[j] => i = j}
ListEntries(I) ==
    {SortOuter([i \in DOMAIN s |-> I.entries[s[i]]], 1, "list") :
        s \in Perms(IndexIds(I))}

IndexState == [idx |-> idx, file |-> idxFile]

\* every Add and Update draws a sequence number: the model stops at MaxSeq
SeqRoom == idx.nextSeq < MaxSeq /\ idxFile.nextSeq < MaxSeq

\* ------------------------------------------------------------------------
\* Create
\* ------------------------------------------------------------------------
\* the second walk of Create: one entry for everything that is no directory
WalkEntries(D, id, absPath) ==
    LET w == SelectSeq(WalkOf(D, absPath), LAMBDA p : ~IsDirAt(D, p))
    IN  [i \in 1..Len(w) |->
            FileEntry(w[i], BackupPathOf(id, w[i]), ModeAt(D, w[i]),
                      IF IsFileAt(D, w[i]) THEN Size(BytesAt(D, w[i])) ELSE 1,
                      FALSE)]

\* path resolution by the kernel: ".." is looked up in a directory that
\* exists, and the root is its own parent
RECURSIVE Walkable(_, _, _)
Walkable(D, done, rest) ==
    IF rest = <<>> THEN TRUE
    ELSE IF Head(rest) \in {".", ".."}
    THEN /\ done = <<>> \/ IsDirAt(D, done)
         /\ Walkable(D, CleanPath(Append(done, Head(rest))), Tail(rest))
    ELSE Walkable(D, Append(done, Head(rest)), Tail(rest))

\* os.Stat: "ok", "notexist", or another error
Stat(D, p) ==
    IF p = LongName THEN "error"
    ELSE IF ~Walkable(D, <<>>, p) THEN "notexist"
    ELSE IF Exists(D, Target(D, CleanPath(p))) THEN "ok" ELSE "notexist"

RECURSIVE CreateLoop(_, _, _, _)
\* the loop's body once the target is backed up: r is what BackupDir or
\* BackupFile returned, D the disk before; a target that failed is passed
\* over, a directory gets its own entry and one per entry walked below it
Backed(r, D, id, targetPaths, files, isDir) ==
    IF r.err THEN CreateLoop(r.d, id, Tail(targetPaths), files)
    ELSE IF isDir
    THEN CreateLoop(r.d, id, Tail(targetPaths),
            files
            \o << FileEntry(AbsPath(Head(targetPaths)),
                            BackupPathOf(id, AbsPath(Head(targetPaths))),
                            ModeAt(D, CleanPath(AbsPath(Head(targetPaths)))),
                            0, TRUE) >>
            \o WalkEntries(r.d, id, CleanPath(AbsPath(Head(targetPaths)))))
    ELSE CreateLoop(r.d, id, Tail(targetPaths),
            files
            \o << FileEntry(AbsPath(Head(targetPaths)),
                            BackupPathOf(id, AbsPath(Head(targetPaths))),
                            ModeAt(D, CleanPath(AbsPath(Head(targetPaths)))),
                            Size(BytesAt(D,
                                CleanPath(AbsPath(Head(targetPaths))))),
                            FALSE) >>)

\* the system calls act on the file the kernel resolves absPath to; the
\* manifest and the backup path are computed from absPath as it is written
CreateLoop(D, id, targetPaths, files) ==
    IF targetPaths = <<>> THEN [d |-> D, files |-> files, err |-> FALSE]
    ELSE IF Stat(D, AbsPath(Head(targetPaths))) = "notexist"
    THEN CreateLoop(D, id, Tail(targetPaths), files)
    ELSE IF Stat(D, AbsPath(Head(targetPaths))) = "error"
    THEN [d |-> D, files |-> files, err |-> TRUE]
    ELSE IF IsDirAt(D, CleanPath(AbsPath(Head(targetPaths))))
    THEN Backed(BackupDir(D, CleanPath(AbsPath(Head(targetPaths))),
                          BackupPathOf(id, AbsPath(Head(targetPaths)))),
                D, id, targetPaths, files, TRUE)
    ELSE Backed(BackupFile(D, CleanPath(AbsPath(Head(targetPaths))),
                           BackupPathOf(id, AbsPath(Head(targetPaths)))),
                D, id, targetPaths, files, FALSE)

NoSnap == [bytes |-> "none", mode |-> {}]
Snapshot(D) ==
    [p \in OrigPaths |-> IF IsFileAt(D, p)
                         THEN [bytes |-> BytesAt(D, p), mode |-> ModeAt(D, p)]
                         ELSE NoSnap]

Outcome(op, id, err) ==
    [op |-> op, id |-> id, err |-> err, preRolledBack |-> FALSE,
     wrote |-> {}, restored |-> {}, dirsGone |-> {}, probed |-> {},
     archiveOnly |-> FALSE, failed |-> 0, diffs |-> {}, cmd |-> "",
     targets |-> <<>>, uncovered |-> {}, arg |-> 0, count |-> 0,
     found |-> {}]

\* Create(command, targetPaths); id is the ID it draws: the second of the
\* clock and eight hexadecimal digits of a random UUID.  Nothing in Create
\* looks whether the directory of that ID exists
CreateDrawn(id, command, targetPaths) ==
    /\ id \in Ids
    /\ SeqRoom
    /\ \E r \in {CreateLoop(MkdirAll(Disk, GetFilesDir(id), M755), id,
                             targetPaths, <<>>)} :
       \E m \in {[NewManifest(id, r.files) EXCEPT !.command = command]} :
       \E X \in {IndexAdd(GetIndex(IndexState, r.d,
                                     [manifests EXCEPT ![id] = m]),
                            Checkpoint(id, m))} :
           /\ fs' = r.d.fs
           /\ inodes' = Collect(r.d).ino
           /\ usedIds' = usedIds \cup {id}
           /\ snap' = [snap EXCEPT ![id] = Snapshot(Disk)]
           /\ IF r.err
              THEN /\ last' = Outcome("Create", id, "stat")
                   /\ UNCHANGED << manifests, idx, idxFile, handle, order >>
              ELSE /\ manifests' = [manifests EXCEPT ![id] = m]
                   /\ idx' = X.idx
                   /\ idxFile' = X.file
                   /\ handle' = Checkpoint(id, m)
                   /\ order' = Append(order, id)
                   /\ last' = Outcome("Create", id, "")
    /\ UNCHANGED << umask, linkOK, threads, server, archives, now, extOps >>

\* Create when the random digits differ from those of every ID drawn before
CreateAs(id, command, targetPaths) ==
    /\ id \in Ids \ usedIds
    /\ CreateDrawn(id, command, targetPaths)

\* Create where the command plays no role
Create(id, targetPaths) == CreateAs(id, DefaultCommand, targetPaths)

\* ------------------------------------------------------------------------
\* The persistent state and the index as one value W = [d, M, A, X]
\* ------------------------------------------------------------------------
World == [d |-> Disk, M |-> manifests, A |-> archives, X |-> IndexState]

Becomes(W) ==
    /\ fs' = W.d.fs
    /\ inodes' = Collect(W.d).ino
    /\ manifests' = W.M
    /\ archives' = W.A
    /\ idx' = W.X.idx
    /\ idxFile' = W.X.file

\* Manifest.Save: os.WriteFile fails when the checkpoint directory is gone
Save(W, id, m) ==
    IF IsDirAt(W.d, CheckpointDir(id)) THEN [W EXCEPT !.M[id] = m] ELSE W

UpdateIndex(W, cp) ==
    [W EXCEPT !.X = IndexUpdate(GetIndex(W.X, W.d, W.M), cp)]

\* ------------------------------------------------------------------------
\* Compression
\* ------------------------------------------------------------------------
\* the tree under root, as filepath.Walk lists it (root first)
TreeWalk(D, root) ==
    SelectSeq([i \in 1..Len(WalkOrder) |-> root \o WalkOrder[i]],
              LAMBDA p : Exists(D, p))

\* one tar header (and body) for a path below srcDir
TarEntry(D, srcDir, p) ==
    [name |-> Rel(srcDir, p), isDir |-> IsDirAt(D, p), mode |-> ModeAt(D, p),
     bytes |-> IF IsFileAt(D, p) THEN BytesAt(D, p) ELSE ""]

ArchiveSize(entries) == 1 + Len(entries)

\* what the volume does to the writes of the archive: nothing ("none"); a
\* write of the walk reports an error ("write"); the data, buffered by the
\* gzip writer, cannot be flushed when the writers are closed ("close")
Faults == {"none", "write", "close"}

\* CompressDir: [d, archive, size, err].  The walk's errors are returned;
\* what tarWriter.Close, gzWriter.Close and archiveFile.Close return is
\* dropped, and the source directory is removed once os.Stat finds the
\* archive file
CompressDirWith(D, srcDir, fault) ==
    LET w == TreeWalk(D, srcDir)
        unreadable == \E i \in 1..Len(w) :
                         IsFileAt(D, w[i]) /\ "ur" \notin ModeAt(D, w[i])
        entries == [i \in 1..Len(w) |-> TarEntry(D, srcDir, w[i])]
    IN  IF ~Exists(D, srcDir) \/ unreadable \/ fault = "write"
        THEN [d |-> D, archive |-> [state |-> "partial", entries |-> <<>>],
              size |-> 0, err |-> TRUE]
        ELSE IF fault = "close"
        THEN [d |-> RemoveAll(D, srcDir),
              archive |-> [state |-> "empty", entries |-> <<>>],
              size |-> 0, err |-> FALSE]
        ELSE [d |-> RemoveAll(D, srcDir),
              archive |-> [state |-> "ok", entries |-> entries],
              size |-> ArchiveSize(entries), err |-> FALSE]

CompressDir(D, srcDir) == CompressDirWith(D, srcDir, "none")

\* os.OpenFile(target, O_CREATE|O_WRONLY|O_TRUNC, mode), then the body
WriteNew(D, target, mode, bytes) ==
    IF D.fs[target].kind = "file"
    THEN [D EXCEPT !.ino[D.fs[target].ino].bytes = bytes]
    ELSE LET k == FreshIno(D)
         IN  [fs |-> [D.fs EXCEPT ![target] = FileNode(k)],
              ino |-> [D.ino EXCEPT ![k] = [bytes |-> bytes,
                                            mode |-> mode \ umask]]]

RECURSIVE Extract(_, _, _)
Extract(D, dstDir, entries) ==
    IF entries = <<>> THEN D
    ELSE LET h == Head(entries)
             targetPath == dstDir \o h.name
         IN  IF h.isDir
             THEN Extract(MkdirAll(D, targetPath, h.mode), dstDir,
                          Tail(entries))
             ELSE Extract(WriteNew(MkdirAll(D, Parent(targetPath), M755),
                                   targetPath, h.mode, h.bytes),
                          dstDir, Tail(entries))

\* DecompressDir: [d, err].  No archive, or an empty one, fails before
\* anything is written; an archive that ends early fails once the
\* destination directory is made
DecompressDir(D, archive, dstDir) ==
    IF archive.state = "partial"
    THEN [d |-> MkdirAll(D, dstDir, M755), err |-> TRUE]
    ELSE IF archive.state # "ok" THEN [d |-> D, err |-> TRUE]
    ELSE [d |-> Extract(MkdirAll(D, dstDir, M755), dstDir, archive.entries),
          err |-> FALSE]

\* Compress once CompressDir returned r: the manifest is updated and saved,
\* the index updated
Compressed(W, cp, r) ==
    IF r.err
    THEN [w |-> [W EXCEPT !.A[cp.id] = r.archive], err |-> "compress"]
    ELSE [w |-> UpdateIndex(
                    Save([W EXCEPT !.d = r.d, !.A[cp.id] = r.archive], cp.id,
                         [cp.manifest EXCEPT !.compressed = TRUE,
                                             !.compressedSize = r.size]),
                    Checkpoint(cp.id,
                         [cp.manifest EXCEPT !.compressed = TRUE,
                                             !.compressedSize = r.size])),
          err |-> ""]

\* Compress(id): [w, err]
CompressOpWith(W, id, fault) ==
    IF Get(W.M, id) = NoHandle THEN [w |-> W, err |-> "notfound"]
    ELSE IF Get(W.M, id).manifest.compressed THEN [w |-> W, err |-> "already"]
    ELSE IF ~Exists(W.d, GetFilesDir(id)) THEN [w |-> W, err |-> "size"]
    ELSE Compressed(W, Get(W.M, id),
                    CompressDirWith(W.d, GetFilesDir(id), fault))

CompressOp(W, id) == CompressOpWith(W, id, "none")

\* a Decompress that removes the archive and clears the flag whatever
\* DecompressDir returned
Decompressed_Eager(W, cp, r) ==
    [w |-> UpdateIndex(
               Save([W EXCEPT !.d = r.d, !.A[cp.id] = NoArchive], cp.id,
                    [cp.manifest EXCEPT !.compressed = FALSE,
                                        !.compressedSize = 0]),
               Checkpoint(cp.id,
                    [cp.manifest EXCEPT !.compressed = FALSE,
                                        !.compressedSize = 0])),
     err |-> IF r.err THEN "decompress" ELSE ""]

\* Decompress once DecompressDir returned r: the archive is removed, the
\* manifest updated and saved, the index updated
Decompressed(W, cp, r) ==
    IF r.err THEN [w |-> [W EXCEPT !.d = r.d], err |-> "decompress"]
    ELSE [w |-> UpdateIndex(
                    Save([W EXCEPT !.d = r.d, !.A[cp.id] = NoArchive], cp.id,
                         [cp.manifest EXCEPT !.compressed = FALSE,
                                             !.compressedSize = 0]),
                    Checkpoint(cp.id,
                         [cp.manifest EXCEPT !.compressed = FALSE,
                                             !.compressedSize = 0])),
          err |-> ""]

\* Decompress(id): [w, err]
DecompressOp(W, id) ==
    IF Get(W.M, id) = NoHandle THEN [w |-> W, err |-> "notfound"]
    ELSE IF ~Get(W.M, id).manifest.compressed THEN [w |-> W, err |-> ""]
    ELSE Decompressed(W, Get(W.M, id),
                      DecompressDir(W.d, W.A[id], GetFilesDir(id)))

\* IsCompressed: files.tar.gz is there
IsCompressed(W, id) == W.A[id] # NoArchive

\* what CompressDir leaves behind: the archive, and no files directory
ArchiveOnly(W, id) == IsCompressed(W, id) /\ ~Exists(W.d, GetFilesDir(id))

EnsureDecompressed(W, cp) ==
    IF cp.manifest.compressed THEN DecompressOp(W, cp.id)
    ELSE [w |-> W, err |-> ""]

\* ------------------------------------------------------------------------
\* Rollback engine
\* ------------------------------------------------------------------------
\* os.Remove: a file, or an empty directory
Remove(D, p) ==
    IF IsDirAt(D, p) /\ \E q \in Paths : q # p /\ IsPrefix(p, q) /\ Exists(D, q)
    THEN [d |-> D, err |-> TRUE]
    ELSE [d |-> [D EXCEPT !.fs[p] = NoNode], err |-> FALSE]

RestoreFile(D, backupPath, originalPath) ==
    LET D1 == MkdirAll(D, Parent(originalPath), M755)
        rm == IF Stat(D1, originalPath) = "ok" THEN Remove(D1, originalPath)
              ELSE [d |-> D1, err |-> FALSE]
    IN  IF rm.err THEN rm ELSE copyFile(rm.d, backupPath, originalPath)

\* os.Chmod
Chmod(D, p, mode) ==
    IF IsFileAt(D, Target(D, p))
    THEN [D EXCEPT !.ino[D.fs[Target(D, p)].ino].mode = mode \ {"L"}]
    ELSE D

\* RollbackToPath: where an original path lands below destPath
\* strings.HasPrefix and strings.TrimPrefix compare characters, not path
\* elements.  NameTail(n, w) is what is left of the name n once the
\* characters of the name w are cut from its front, NoTail when n does not
\* begin with them
NoTail == "/"
NameTail(n, w) ==
    IF n = w THEN ""
    ELSE IF n = "w2.txt" /\ w = "w" THEN "2.txt"
    ELSE NoTail

HasPrefix(path, dir) ==
    /\ Len(path) >= Len(dir)
    /\ SubSeq(path, 1, Len(dir) - 1) = Parent(dir)
    /\ NameTail(path[Len(dir)], Base(dir)) # NoTail

\* TrimPrefix(path, dir), then TrimPrefix(relPath, "/")
TrimPrefix(path, dir) ==
    IF NameTail(path[Len(dir)], Base(dir)) = ""
    THEN Rel(dir, path)
    ELSE << NameTail(path[Len(dir)], Base(dir)) >> \o Rel(dir, path)

DestOf(destPath, originalPath) ==
    IF HasPrefix(originalPath, WorkingDir)
    THEN destPath \o TrimPrefix(originalPath, WorkingDir)
    ELSE destPath \o << Base(originalPath) >>

\* the restore loop giving up at the first entry that fails
RECURSIVE RestoreLoop_Abort(_, _, _, _, _, _)
RestoreLoop_Abort(D, files, selected, toPath, destPath, acc) ==
    IF files = <<>> THEN [acc EXCEPT !.d = D]
    ELSE LET file == Head(files)
             targetPath == IF toPath THEN DestOf(destPath, file.originalPath)
                           ELSE file.originalPath
             r == RestoreFile(D, file.backupPath, targetPath)
         IN  IF file.isDir \/ file.originalPath \notin selected
             THEN RestoreLoop_Abort(D, Tail(files), selected, toPath,
                                    destPath, acc)
             ELSE IF ~Exists(D, file.backupPath)
             THEN [acc EXCEPT !.d = D, !.failed = @ + 1,
                              !.probed = @ \cup {file.backupPath}]
             ELSE IF r.err
             THEN [acc EXCEPT !.d = r.d, !.failed = @ + 1,
                              !.wrote = @ \cup {targetPath},
                              !.probed = @ \cup {file.backupPath}]
             ELSE RestoreLoop_Abort(Chmod(r.d, targetPath, file.mode),
                              Tail(files), selected, toPath, destPath,
                              [acc EXCEPT !.restored = @ \cup {targetPath},
                                          !.wrote = @ \cup {targetPath},
                                          !.probed = @ \cup {file.backupPath}])

\* the restore loop the four variants share: `selected` is the set of
\* original paths to restore, `toPath` whether they go below destPath
RECURSIVE RestoreLoop(_, _, _, _, _, _)
RestoreLoop(D, files, selected, toPath, destPath, acc) ==
    IF files = <<>> THEN [acc EXCEPT !.d = D]
    ELSE LET file == Head(files)
             targetPath == IF toPath THEN DestOf(destPath, file.originalPath)
                           ELSE file.originalPath
             r == RestoreFile(D, file.backupPath, targetPath)
         IN  IF file.isDir \/ file.originalPath \notin selected
             THEN RestoreLoop(D, Tail(files), selected, toPath, destPath, acc)
             ELSE IF ~Exists(D, file.backupPath)
             THEN RestoreLoop(D, Tail(files), selected, toPath, destPath,
                              [acc EXCEPT !.failed = @ + 1,
                                          !.probed = @ \cup {file.backupPath}])
             ELSE IF r.err
             THEN RestoreLoop(r.d, Tail(files), selected, toPath, destPath,
                              [acc EXCEPT !.failed = @ + 1,
                                          !.wrote = @ \cup {targetPath},
                                          !.probed = @ \cup {file.backupPath}])
             ELSE RestoreLoop(Chmod(r.d, targetPath, file.mode), Tail(files),
                              selected, toPath, destPath,
                              [acc EXCEPT !.restored = @ \cup {targetPath},
                                          !.wrote = @ \cup {targetPath},
                                          !.probed = @ \cup {file.backupPath}])

NoneRestored(D) ==
    [d |-> D, restored |-> {}, wrote |-> {}, failed |-> 0, probed |-> {}]

\* the auto-decompress prologue of every variant: [w, cp, err]; r is what
\* EnsureDecompressed returned, the checkpoint is then loaded again
Reloaded(r, cp) ==
    IF r.err # "" THEN [w |-> r.w, cp |-> cp, err |-> "decompress"]
    ELSE IF Get(r.w.M, cp.id) = NoHandle
    THEN [w |-> r.w, cp |-> cp, err |-> "reload"]
    ELSE [w |-> r.w, cp |-> Get(r.w.M, cp.id), err |-> ""]

Prologue(W, cp) ==
    IF ~cp.manifest.compressed THEN [w |-> W, cp |-> cp, err |-> ""]
    ELSE Reloaded(EnsureDecompressed(W, cp), cp)

Result(w, h, err, loop) ==
    [w |-> w, handle |-> h, err |-> err, restored |-> loop.restored,
     wrote |-> loop.wrote, probed |-> loop.probed, failed |-> loop.failed]

\* what a variant returns once its loop is over.  Only Rollback marks: it
\* sets RolledBack on the checkpoint it restored from and saves that
\* manifest; the caller's handle is that checkpoint unless the prologue
\* loaded another one
Finish(pre, cp, loop, mark) ==
    Result(IF mark
           THEN Save([pre.w EXCEPT !.d = loop.d], pre.cp.id,
                     [pre.cp.manifest EXCEPT !.rolledBack = TRUE])
           ELSE [pre.w EXCEPT !.d = loop.d],
           IF mark /\ ~cp.manifest.compressed
           THEN [cp EXCEPT !.manifest.rolledBack = TRUE] ELSE cp,
           IF loop.failed > 0 THEN "failed" ELSE "", loop)

\* the body the four variants spell out after their first check: the
\* prologue's error, the destination directory, the loop
RestoreFrom(pre, cp, selected, toPath, destPath, mark) ==
    IF pre.err # ""
    THEN Result(pre.w, cp, pre.err, NoneRestored(pre.w.d))
    ELSE IF toPath
    THEN Finish(pre, cp,
                RestoreLoop(MkdirAll(pre.w.d, destPath, M755),
                            pre.cp.manifest.files, selected, TRUE, destPath,
                            NoneRestored(MkdirAll(pre.w.d, destPath, M755))),
                mark)
    ELSE Finish(pre, cp,
                RestoreLoop(pre.w.d, pre.cp.manifest.files, selected, FALSE,
                            destPath, NoneRestored(pre.w.d)),
                mark)

\* Rollback(cp): the world after, the caller's handle after, the outcome
Rollback(W, cp) ==
    IF cp.manifest.rolledBack
    THEN Result(W, cp, "already", NoneRestored(W.d))
    ELSE RestoreFrom(Prologue(W, cp), cp, OrigPaths, FALSE, DestRoot, TRUE)

\* RollbackSelective marking the checkpoint as Rollback does
RollbackSelective_Marks(W, cp, filePaths) ==
    IF cp.manifest.rolledBack
    THEN Result(W, cp, "already", NoneRestored(W.d))
    ELSE RestoreFrom(Prologue(W, cp), cp, filePaths, FALSE, DestRoot, TRUE)

RollbackSelective(W, cp, filePaths) ==
    IF cp.manifest.rolledBack
    THEN Result(W, cp, "already", NoneRestored(W.d))
    ELSE RestoreFrom(Prologue(W, cp), cp, filePaths, FALSE, DestRoot, FALSE)

RollbackToPath(W, cp, destPath) ==
    RestoreFrom(Prologue(W, cp), cp, OrigPaths, TRUE, destPath, FALSE)

RollbackSelectiveToPath(W, cp, filePaths, destPath) ==
    RestoreFrom(Prologue(W, cp), cp, filePaths, TRUE, destPath, FALSE)

\* Get(id), the handle kept by the caller
GetCheckpoint(id) ==
    /\ handle' = Get(manifests, id)
    /\ last' = Outcome("Get", id,
                       IF Get(manifests, id) = NoHandle THEN "notfound" ELSE "")
    /\ UNCHANGED << fs, inodes, umask, linkOK, threads, server,
                    manifests, archives, idx,
                    idxFile, now, usedIds, extOps, snap, order >>

\* os.RemoveAll(checkpointDir) fails: the directory gives no write
\* permission and holds manifest.json, files.tar.gz or files
RemoveFails(W, id) ==
    /\ IsDirAt(W.d, CheckpointDir(id))
    /\ "uw" \notin W.d.fs[CheckpointDir(id)].mode
    /\ \/ W.M[id] # NoManifest
       \/ W.A[id] # NoArchive
       \/ Exists(W.d, GetFilesDir(id))

\* Delete(id): [w, err].  A failed RemoveAll has removed what it could,
\* and the index is left alone
DeleteOp(W, id) ==
    IF RemoveFails(W, id)
    THEN [w |-> [W EXCEPT !.d = [RemoveAll(W.d, CheckpointDir(id))
                                   EXCEPT !.fs[CheckpointDir(id)] =
                                              W.d.fs[CheckpointDir(id)]]],
          err |-> "remove"]
    ELSE [w |-> [d |-> RemoveAll(W.d, CheckpointDir(id)),
                 M |-> [W.M EXCEPT ![id] = NoManifest],
                 A |-> [W.A EXCEPT ![id] = NoArchive],
                 X |-> IndexRemove(
                           GetIndex(W.X, RemoveAll(W.d, CheckpointDir(id)),
                                    [W.M EXCEPT ![id] = NoManifest]),
                           id)],
          err |-> ""]

Delete(id) ==
    /\ IsDirAt(Disk, CheckpointDir(id))
    /\ \E r \in {DeleteOp(World, id)} :
        /\ Becomes(r.w)
        /\ last' = Outcome("Delete", id, r.err)
    /\ UNCHANGED << umask, linkOK, threads, server,
                    handle, now, usedIds, extOps, snap, order >>

\* GetLatest(): the first of the index's listing, loaded by Get
GetLatest ==
    \E X \in {GetIndex(IndexState, Disk, manifests)} :
        /\ idx' = X.idx
        /\ idxFile' = X.file
        /\ \E entries \in ListEntries(X.idx) :
             IF Len(entries) = 0
             THEN /\ handle' = NoHandle
                  /\ last' = Outcome("GetLatest", "none", "nocheckpoints")
             ELSE /\ handle' = Get(manifests, entries[1].id)
                  /\ last' = Outcome("GetLatest", entries[1].id,
                                IF Get(manifests, entries[1].id) = NoHandle
                                THEN "notfound" ELSE "")
        /\ UNCHANGED << fs, inodes, umask, linkOK, threads, server,
                        manifests, archives, now,
                        usedIds, extOps, snap, order >>

\* List(): the directories that hold a manifest
Listed(D, M) ==
    {id \in CheckpointDirIds(D) : LoadManifest(M, id) # NoManifest}

\* Clean(olderThan): Delete every listed checkpoint created before the cutoff
CleanVictims(olderThan) ==
    {id \in Listed(Disk, manifests) :
        manifests[id].timestamp < now - olderThan}

\* the loop of Clean giving up at the first Delete that fails
RECURSIVE DeleteAll_Stop(_, _, _)
DeleteAll_Stop(W, ids, deleted) ==
    IF ids = {} THEN [w |-> W, deleted |-> deleted]
    ELSE IF RemoveFails(W, CHOOSE x \in ids : TRUE)
    THEN [w |-> DeleteOp(W, CHOOSE x \in ids : TRUE).w, deleted |-> deleted]
    ELSE DeleteAll_Stop(DeleteOp(W, CHOOSE x \in ids : TRUE).w,
                        ids \ {CHOOSE x \in ids : TRUE}, deleted + 1)

\* the loop of Clean: [w, deleted]; a Delete that fails is passed over
RECURSIVE DeleteAll(_, _, _)
DeleteAll(W, ids, deleted) ==
    IF ids = {} THEN [w |-> W, deleted |-> deleted]
    ELSE DeleteAll(DeleteOp(W, CHOOSE x \in ids : TRUE).w,
                   ids \ {CHOOSE x \in ids : TRUE},
                   IF RemoveFails(W, CHOOSE x \in ids : TRUE)
                   THEN deleted ELSE deleted + 1)

Clean(olderThan) ==
    /\ \E r \in {DeleteAll(World, CleanVictims(olderThan), 0)} :
        /\ Becomes(r.w)
        /\ last' = [Outcome("Clean", "none", "")
                       EXCEPT !.arg = olderThan, !.count = r.deleted]
    /\ UNCHANGED << umask, linkOK, threads, server,
                    handle, now, usedIds, extOps, snap, order >>

\* ------------------------------------------------------------------------
\* Search.  Strings are compared character by character: a name of the
\* model is spelled out by Chars, a path by PathString.
\* ------------------------------------------------------------------------
Chars(name) ==
    CASE name = "w" -> << "w" >>
      [] name = "proj" -> << "p", "r", "o", "j" >>
      [] name = "a.txt" -> << "a", ".", "t", "x", "t" >>
      [] name = ".git" -> << ".", "g", "i", "t" >>
      [] name = "config" -> << "c", "o", "n", "f", "i", "g" >>
      [] name = "lnk" -> << "l", "n", "k" >>
      [] name = "build" -> << "b", "u", "i", "l", "d" >>
      [] name = "b.txt" -> << "b", ".", "t", "x", "t" >>
      [] name = "o.txt" -> << "o", ".", "t", "x", "t" >>
      [] name = "w2.txt" -> << "w", "2", ".", "t", "x", "t" >>
      [] OTHER -> << name >>

RECURSIVE PathString(_)
PathString(p) ==
    IF p = <<>> THEN <<>>
    ELSE << "/" >> \o Chars(Head(p)) \o PathString(Tail(p))

\* strings.ToLower on the letters the model uses in upper case
LowerChar(c) ==
    CASE c = "A" -> "a"
      [] c = "M" -> "m"
      [] c = "R" -> "r"
      [] c = "T" -> "t"
      [] OTHER -> c
ToLower(str) == [i \in 1..Len(str) |-> LowerChar(str[i])]

\* strings.Contains
Contains(str, substr) ==
    \E i \in 0..(Len(str) - Len(substr)) :
        SubSeq(str, i + 1, i + Len(substr)) = substr

\* strings.EqualFold, on tags
EqualFold(t, u) == ToLower(Chars(t)) = ToLower(Chars(u))

\* SearchOptions: a criterion with the zero value is not applied
NoTime == -1
SearchOptions(fileName, tag, command, before, after) ==
    [fileName |-> fileName, tag |-> tag, command |-> command,
     before |-> before, after |-> after]

\* a loop body of Search that keeps a checkpoint when any one criterion
\* holds
Matches_Any(m, opts) ==
    \/ opts.tag # "" /\ \E t \in Range(m.tags) : EqualFold(t, opts.tag)
    \/ /\ opts.command # <<>>
       /\ Contains(ToLower(m.command), ToLower(opts.command))
    \/ /\ opts.fileName # <<>>
       /\ \E f \in Range(m.files) :
             Contains(ToLower(PathString(f.originalPath)),
                      ToLower(opts.fileName))
    \/ opts.after # NoTime /\ ~(m.timestamp < opts.after)
    \/ opts.before # NoTime /\ ~(m.timestamp > opts.before)

\* the body of Search's loop: `match` after the five filters
Matches(m, opts) ==
    LET tagOK == IF opts.tag # ""
                 THEN \E t \in Range(m.tags) : EqualFold(t, opts.tag)
                 ELSE TRUE
        commandOK == IF tagOK /\ opts.command # <<>>
                     THEN Contains(ToLower(m.command), ToLower(opts.command))
                     ELSE tagOK
        fileOK == IF commandOK /\ opts.fileName # <<>>
                  THEN \E f \in Range(m.files) :
                          Contains(ToLower(PathString(f.originalPath)),
                                   ToLower(opts.fileName))
                  ELSE commandOK
        afterOK == IF fileOK /\ opts.after # NoTime
                   THEN ~(m.timestamp < opts.after)
                   ELSE fileOK
    IN  IF afterOK /\ opts.before # NoTime
        THEN ~(m.timestamp > opts.before)
        ELSE afterOK

\* Search(opts): the checkpoints of List() that match
SearchResults(D, M, opts) == {id \in Listed(D, M) : Matches(M[id], opts)}

Search(opts) ==
    /\ last' = [Outcome("Search", "none", "")
                  EXCEPT !.arg = opts,
                         !.found = SearchResults(Disk, manifests, opts)]
    /\ UNCHANGED << fs, inodes, umask, linkOK, threads, server,
                    manifests, archives, idx,
                    idxFile, handle, now, usedIds, extOps, snap, order >>

\* ------------------------------------------------------------------------
\* Tags and notes
\* ------------------------------------------------------------------------
TagNames == {"t"}
Notes == {"n"}

AddTag(id, tag) ==
    LET cp == Get(manifests, id)
        m == [cp.manifest EXCEPT !.tags = Append(@, tag)]
    IN  /\ cp # NoHandle
        /\ SeqRoom
        /\ IF tag \in Range(cp.manifest.tags)
           THEN UNCHANGED << fs, inodes, manifests, archives, idx, idxFile >>
           ELSE Becomes(UpdateIndex(Save(World, id, m), Checkpoint(cp.id, m)))
        /\ last' = Outcome("AddTag", id, "")
        /\ UNCHANGED << umask, linkOK, threads, server,
                        handle, now, usedIds, extOps, snap,
                        order >>

RemoveTag(id, tag) ==
    LET cp == Get(manifests, id)
        m == [cp.manifest EXCEPT !.tags = SelectSeq(@, LAMBDA t : t # tag)]
    IN  /\ cp # NoHandle
        /\ SeqRoom
        /\ Becomes(UpdateIndex(Save(World, id, m), Checkpoint(cp.id, m)))
        /\ last' = Outcome("RemoveTag", id, "")
        /\ UNCHANGED << umask, linkOK, threads, server,
                        handle, now, usedIds, extOps, snap,
                        order >>

SetNote(id, note) ==
    LET cp == Get(manifests, id)
        m == [cp.manifest EXCEPT !.note = note]
    IN  /\ cp # NoHandle
        /\ SeqRoom
        /\ Becomes(UpdateIndex(Save(World, id, m), Checkpoint(cp.id, m)))
        /\ last' = Outcome("SetNote", id, "")
        /\ UNCHANGED << umask, linkOK, threads, server,
                        handle, now, usedIds, extOps, snap,
                        order >>

\* ------------------------------------------------------------------------
\* Compress, Decompress
\* ------------------------------------------------------------------------
Compress(id) ==
    /\ SeqRoom
    /\ \E r \in {CompressOp(World, id)} :
        /\ Becomes(r.w)
        /\ last' = Outcome("Compress", id, r.err)
        /\ UNCHANGED << umask, linkOK, threads, server,
                        handle, now, usedIds, extOps, snap,
                        order >>

\* Compress(id) on a volume that may fail the archive's writes
CompressWith(id, fault) ==
    /\ SeqRoom
    /\ \E r \in {CompressOpWith(World, id, fault)} :
        /\ Becomes(r.w)
        /\ last' = [Outcome("Compress", id, r.err) EXCEPT !.arg = fault]
        /\ UNCHANGED << umask, linkOK, threads, server,
                        handle, now, usedIds, extOps, snap,
                        order >>

Decompress(id) ==
    /\ SeqRoom
    /\ \E r \in {DecompressOp(World, id)} :
        /\ Becomes(r.w)
        /\ last' = Outcome("Decompress", id, r.err)
        /\ UNCHANGED << umask, linkOK, threads, server,
                        handle, now, usedIds, extOps, snap,
                        order >>

\* ------------------------------------------------------------------------
\* Rollback, on the caller's handle or by ID
\* ------------------------------------------------------------------------
PersistedRolledBack(id) ==
    manifests[id] # NoManifest /\ manifests[id].rolledBack

RollbackOutcome(op, cp, r) ==
    [op |-> op, id |-> cp.id, err |-> r.err,
     preRolledBack |-> PersistedRolledBack(cp.id),
     wrote |-> r.wrote, restored |-> r.restored, probed |-> r.probed,
     archiveOnly |-> ArchiveOnly(r.w, cp.id), failed |-> r.failed,
     diffs |-> {}, cmd |-> "", targets |-> <<>>, uncovered |-> {},
     arg |-> 0, count |-> 0, found |-> {},
     dirsGone |-> {cp.manifest.files[i].originalPath :
                     i \in {j \in 1..Len(cp.manifest.files) :
                              /\ cp.manifest.files[j].isDir
                              /\ ~Exists(Disk,
                                     cp.manifest.files[j].originalPath)}}]

RollbackHandle ==
    /\ handle # NoHandle
    /\ SeqRoom
    /\ \E r \in {Rollback(World, handle)} :
        /\ Becomes(r.w)
        /\ handle' = r.handle
        /\ last' = RollbackOutcome("Rollback", handle, r)
        /\ UNCHANGED << umask, linkOK, threads, server,
                        now, usedIds, extOps, snap, order >>

RollbackByID(id) ==
    /\ Get(manifests, id) # NoHandle
    /\ SeqRoom
    /\ \E r \in {Rollback(World, Get(manifests, id))} :
        /\ Becomes(r.w)
        /\ last' = RollbackOutcome("Rollback", Get(manifests, id), r)
        /\ UNCHANGED << umask, linkOK, threads, server,
                        handle, now, usedIds, extOps, snap,
                        order >>

RollbackSelectiveHandle(filePaths) ==
    /\ handle # NoHandle
    /\ SeqRoom
    /\ \E r \in {RollbackSelective(World, handle, filePaths)} :
        /\ Becomes(r.w)
        /\ last' = RollbackOutcome("RollbackSelective", handle, r)
        /\ UNCHANGED << umask, linkOK, threads, server,
                        handle, now, usedIds, extOps, snap,
                        order >>

RollbackToPathHandle ==
    /\ handle # NoHandle
    /\ SeqRoom
    /\ \E r \in {RollbackToPath(World, handle, DestRoot)} :
        /\ Becomes(r.w)
        /\ last' = RollbackOutcome("RollbackToPath", handle, r)
        /\ UNCHANGED << umask, linkOK, threads, server,
                        handle, now, usedIds, extOps, snap,
                        order >>

\* RollbackToPath(cp, destPath) for a destination the caller chose
RollbackToPathAt(destPath) ==
    /\ handle # NoHandle
    /\ SeqRoom
    /\ \E r \in {RollbackToPath(World, handle, destPath)} :
        /\ Becomes(r.w)
        /\ last' = [RollbackOutcome("RollbackToPath", handle, r)
                       EXCEPT !.targets = << destPath >>]
        /\ UNCHANGED << umask, linkOK, threads, server,
                        handle, now, usedIds, extOps, snap,
                        order >>

RollbackSelectiveToPathHandle(filePaths) ==
    /\ handle # NoHandle
    /\ SeqRoom
    /\ \E r \in {RollbackSelectiveToPath(World, handle, filePaths, DestRoot)} :
        /\ Becomes(r.w)
        /\ last' = RollbackOutcome("RollbackSelectiveToPath", handle, r)
        /\ UNCHANGED << umask, linkOK, threads, server,
                        handle, now, usedIds, extOps, snap,
                        order >>

\* ------------------------------------------------------------------------
\* Diff: the diff command, and the checkpoint_diff tool of the MCP server
\* ------------------------------------------------------------------------
\* config: max_file_size_mb, 100 unless the user changed it
MaxFileSizeMB == 100

\* CheckFileSize(path): whether the file exceeds the maximum, its size in
\* MB, the maximum.  No function of the program calls it.
CheckFileSize(D, path) ==
    IF MaxFileSizeMB <= 0 THEN [exceeds |-> FALSE, sizeMB |-> 0, limit |-> 0]
    ELSE IF ~Exists(D, Target(D, path))
    THEN [exceeds |-> FALSE, sizeMB |-> 0, limit |-> MaxFileSizeMB]
    ELSE [exceeds |-> (IF IsFileAt(D, Target(D, path))
                       THEN Size(BytesAt(D, Target(D, path))) ELSE 1)
                         \div MiB > MaxFileSizeMB,
          sizeMB |-> (IF IsFileAt(D, Target(D, path))
                      THEN Size(BytesAt(D, Target(D, path))) ELSE 1)
                         \div MiB,
          limit |-> MaxFileSizeMB]

\* os.Stat(p).Size(); what is no regular file counts one byte, as in Create
StatSize(D, p) ==
    IF IsFileAt(D, Target(D, p)) THEN Size(BytesAt(D, Target(D, p))) ELSE 1

\* fileHash: [hash, err]; the hash of a file is modelled by its bytes,
\* reading anything but a readable regular file is an error
fileHash(D, p) ==
    IF IsFileAt(D, Target(D, p)) /\ "ur" \in ModeAt(D, Target(D, p))
    THEN [hash |-> BytesAt(D, Target(D, p)), err |-> FALSE]
    ELSE [hash |-> "", err |-> TRUE]

filesMatch(D, path1, path2) ==
    IF Stat(D, path1) # "ok" \/ Stat(D, path2) # "ok" THEN FALSE
    ELSE IF StatSize(D, path1) # StatSize(D, path2) THEN FALSE
    ELSE IF fileHash(D, path1).err \/ fileHash(D, path2).err THEN FALSE
    ELSE fileHash(D, path1).hash = fileHash(D, path2).hash

FileDiff(path, status) == [path |-> path, status |-> status]

\* analyzeDiffs: one FileDiff per entry that is no directory
analyzeDiffs(D, cp) ==
    {FileDiff(f.originalPath,
              IF Stat(D, f.originalPath) # "ok" THEN "deleted"
              ELSE IF filesMatch(D, f.backupPath, f.originalPath)
              THEN "unchanged" ELSE "modified") :
        f \in {g \in Range(cp.manifest.files) : ~g.isDir}}

\* the backup paths analyzeDiffs hands to filesMatch
DiffProbed(D, cp) ==
    {f.backupPath : f \in {g \in Range(cp.manifest.files) :
                              ~g.isDir /\ Stat(D, g.originalPath) = "ok"}}

\* toolCheckpointDiff: the size now against the size in the manifest
toolCheckpointDiff(D, cp) ==
    {FileDiff(f.originalPath,
              IF Stat(D, f.originalPath) # "ok" THEN "deleted"
              ELSE IF StatSize(D, f.originalPath) # f.size THEN "modified"
              ELSE "unchanged") :
        f \in {g \in Range(cp.manifest.files) : ~g.isDir}}

DiffOutcome(op, id, diffs, probed) ==
    [Outcome(op, id, "") EXCEPT !.diffs = diffs, !.probed = probed,
                                !.archiveOnly = ArchiveOnly(World, id)]

\* safeshell diff <id>
Diff(id) ==
    /\ IF Get(manifests, id) = NoHandle
       THEN last' = Outcome("Diff", id, "notfound")
       ELSE last' = DiffOutcome("Diff", id,
                                analyzeDiffs(Disk, Get(manifests, id)),
                                DiffProbed(Disk, Get(manifests, id)))
    /\ UNCHANGED << fs, inodes, umask, linkOK, threads, server,
                    manifests, archives, idx,
                    idxFile, handle, now, usedIds, extOps, snap, order >>

\* the tool call checkpoint_diff with an id
ToolDiff(id) ==
    /\ IF Get(manifests, id) = NoHandle
       THEN last' = Outcome("ToolDiff", id, "notfound")
       ELSE last' = DiffOutcome("ToolDiff", id,
                                toolCheckpointDiff(Disk, Get(manifests, id)),
                                {})
    /\ UNCHANGED << fs, inodes, umask, linkOK, threads, server,
                    manifests, archives, idx,
                    idxFile, handle, now, usedIds, extOps, snap, order >>

\* ------------------------------------------------------------------------
\* The command wrapper.  An argument is a flag (it begins with "-") or a
\* path; the real commands are the system's rm and cp.
\* ------------------------------------------------------------------------
Flag(text) == [text |-> text, path |-> <<>>]
PathArg(path) == [text |-> "", path |-> path]
\* strings.HasPrefix(arg, "-")
HasDashPrefix(arg) == arg.text # ""

NonFlags(args) ==
    LET nf == SelectSeq(args, LAMBDA a : ~HasDashPrefix(a))
    IN  [i \in 1..Len(nf) |-> nf[i].path]

ParseRmArgs(args) == NonFlags(args)

ParseCpArgs(args) ==
    IF Len(NonFlags(args)) >= 2
    THEN << NonFlags(args)[Len(NonFlags(args))] >>
    ELSE <<>>

SupportedCommands == {"rm", "cp"}
Parser(cmdName, args) ==
    IF cmdName = "rm" THEN ParseRmArgs(args) ELSE ParseCpArgs(args)

\* Wrap: the targets that os.Stat finds
ExistingTargets(D, targets) ==
    SelectSeq(targets, LAMBDA t : Stat(D, t) = "ok")

\* rm [-rf] path...: a file or a symlink is unlinked, a directory is
\* removed with what it holds when -r is given
RECURSIVE RealRm(_, _, _)
RealRm(D, paths, recursive) ==
    IF paths = <<>> THEN D
    ELSE IF IsDirAt(D, Head(paths))
    THEN RealRm(IF recursive THEN RemoveAll(D, Head(paths)) ELSE D,
                Tail(paths), recursive)
    ELSE IF Exists(D, Head(paths))
    THEN RealRm([D EXCEPT !.fs[Head(paths)] = NoNode], Tail(paths),
                recursive)
    ELSE RealRm(D, Tail(paths), recursive)

\* cp src dst, dst no directory: an existing dst is opened with O_TRUNC
\* and written in place, a missing one is created
RealCp(D, paths) ==
    IF Len(paths) # 2 THEN D
    ELSE IF ~IsFileAt(D, paths[1]) \/ "ur" \notin ModeAt(D, paths[1])
    THEN D
    ELSE IF IsFileAt(D, paths[2])
    THEN IF D.fs[paths[2]].ino = D.fs[paths[1]].ino
            \/ "uw" \notin ModeAt(D, paths[2])
         THEN D
         ELSE WriteNew(D, paths[2], ModeAt(D, paths[1]),
                       BytesAt(D, paths[1]))
    ELSE IF ~Exists(D, paths[2]) /\ IsDirAt(D, Parent(paths[2]))
    THEN WriteNew(D, paths[2], ModeAt(D, paths[1]), BytesAt(D, paths[1]))
    ELSE D

\* executeCommand: the disk after the real command ran
executeCommand(D, cmdName, args) ==
    IF cmdName = "rm"
    THEN RealRm(D, NonFlags(args),
                \E i \in 1..Len(args) : args[i].text \in {"-r", "-rf"})
    ELSE RealCp(D, NonFlags(args))

\* the existing targets the checkpoint does not cover when the command
\* starts: no entry in the manifest, or no backup at the entry's path
Uncovered(D, id, files, existing) ==
    {t \in Range(existing) :
        \/ \A f \in Range(files) : f.originalPath # t
        \/ ~Exists(D, BackupPathOf(id, t))}

WrapOutcome(id, err, cmdName, existing, uncovered) ==
    [Outcome("Wrap", id, err) EXCEPT !.cmd = cmdName, !.targets = existing,
                                     !.uncovered = uncovered]

\* fullCommand, the command line recorded in the manifest: the name of
\* the command, the arguments left out
fullCommand(cmdName) ==
    IF cmdName = "cp" THEN << "c", "p" >> ELSE << "r", "m" >>

\* Wrap(cmdName, args) for a supported command; id is the ID Create draws
Wrap(id, cmdName, args) ==
    /\ cmdName \in SupportedCommands
    /\ id \in Ids \ usedIds
    /\ SeqRoom
    /\ \E existing \in {ExistingTargets(Disk, Parser(cmdName, args))} :
         IF existing = <<>>
         THEN /\ fs' = executeCommand(Disk, cmdName, args).fs
              /\ inodes' = Collect(executeCommand(Disk, cmdName, args)).ino
              /\ last' = WrapOutcome("none", "", cmdName, existing, {})
              /\ UNCHANGED << manifests, idx, idxFile, handle, order,
                              usedIds, snap >>
         ELSE \E r \in {CreateLoop(MkdirAll(Disk, GetFilesDir(id), M755), id,
                                   existing, <<>>)} :
              \E m \in {[NewManifest(id, r.files)
                           EXCEPT !.command = fullCommand(cmdName)]} :
              \E X \in {IndexAdd(GetIndex(IndexState, r.d,
                                          [manifests EXCEPT ![id] = m]),
                                 Checkpoint(id, m))} :
              \E D2 \in {executeCommand(r.d, cmdName, args)} :
                  /\ fs' = D2.fs
                  /\ inodes' = Collect(D2).ino
                  /\ usedIds' = usedIds \cup {id}
                  /\ snap' = [snap EXCEPT ![id] = Snapshot(Disk)]
                  /\ IF r.err
                     THEN /\ last' = WrapOutcome(id, "stat", cmdName,
                                                 existing, Range(existing))
                          /\ UNCHANGED << manifests, idx, idxFile, handle,
                                          order >>
                     ELSE /\ manifests' = [manifests EXCEPT ![id] = m]
                          /\ idx' = X.idx
                          /\ idxFile' = X.file
                          /\ handle' = Checkpoint(id, m)
                          /\ order' = Append(order, id)
                          /\ last' = WrapOutcome(id, "", cmdName, existing,
                                         Uncovered(r.d, id, r.files, existing))
    /\ UNCHANGED << umask, linkOK, threads, server, archives, now, extOps >>

\* ------------------------------------------------------------------------
\* What happens to the user's tree from outside: the destructive command
\* that was wrapped, or anything else
\* ------------------------------------------------------------------------
Dirty == [bytes |-> "dirty", mode |-> {}]

External(D, touched) ==
    /\ extOps < MaxExtOps
    /\ extOps' = extOps + 1
    /\ fs' = D.fs
    /\ inodes' = Collect(D).ino
    /\ snap' = [id \in Ids |-> [p \in OrigPaths |->
                    IF p \in touched /\ snap[id][p] # NoSnap THEN Dirty
                    ELSE snap[id][p]]]
    /\ last' = Outcome("External", "none", "")
    /\ UNCHANGED << umask, linkOK, threads, server,
                    manifests, archives, idx, idxFile, handle,
                    now, usedIds, order >>

\* rm p
ExtRemove(p) ==
    /\ IsFileAt(Disk, p)
    /\ External([Disk EXCEPT !.fs[p] = NoNode], {})

\* rm -rf p
ExtRemoveAll(p) ==
    /\ IsDirAt(Disk, p)
    /\ External(RemoveAll(Disk, p), {})

\* p is removed and written anew
ExtReplace(p, bytes, mode) ==
    /\ IsFileAt(Disk, p)
    /\ External(WriteNew([Disk EXCEPT !.fs[p] = NoNode], p, mode, bytes), {})

\* the symlink p is removed and a regular file written in its place
ExtReplaceLink(p, bytes, mode) ==
    /\ isSymlink(Disk, p)
    /\ External(WriteNew([Disk EXCEPT !.fs[p] = NoNode], p, mode, bytes), {})

\* chmod
ExtChmod(p, mode) ==
    /\ IsFileAt(Disk, p)
    /\ ModeAt(Disk, p) # mode
    /\ External(Chmod(Disk, p, mode), {})

\* p is truncated in place: every name of its inode sees it
ExtTruncate(p) ==
    /\ IsFileAt(Disk, p)
    /\ BytesAt(Disk, p) # ""
    /\ External([Disk EXCEPT !.ino[Disk.fs[p].ino].bytes = ""], {p})

\* chmod a-w on the directory of a checkpoint
ExtProtect(id) ==
    /\ IsDirAt(Disk, CheckpointDir(id))
    /\ "uw" \in Disk.fs[CheckpointDir(id)].mode
    /\ External([Disk EXCEPT !.fs[CheckpointDir(id)].mode = @ \ {"uw", "gw"}],
                {})

\* ln -sfn to p: p becomes a symlink to `to`
ExtSymlink(p, to) ==
    /\ IsFileAt(Disk, p)
    /\ External([Disk EXCEPT !.fs[p] = LinkNode(to)], {})

\* files.tar.gz of a checkpoint is damaged: it no longer reads to its end
ExtCorrupt(id) ==
    /\ archives[id].state = "ok"
    /\ extOps < MaxExtOps
    /\ extOps' = extOps + 1
    /\ archives' = [archives EXCEPT ![id].state = "partial"]
    /\ last' = Outcome("External", "none", "")
    /\ UNCHANGED << fs, inodes, umask, linkOK, threads, server,
                    manifests, idx, idxFile,
                    handle, now, usedIds, snap, order >>

\* .index.json is lost, damaged (it no longer parses) or made unreadable
\* (chmod 000)
IndexFileStates == {"missing", "corrupt", "unreadable"}
ExtIndexFile(state) ==
    /\ idxFile.state = "ok"
    /\ extOps < MaxExtOps
    /\ extOps' = extOps + 1
    /\ idxFile' = IF state = "missing"
                  THEN [state |-> "missing", entries |-> EmptyEntries,
                        nextSeq |-> 0]
                  ELSE [idxFile EXCEPT !.state = state]
    /\ last' = Outcome("External", "none", "")
    /\ UNCHANGED << fs, inodes, umask, linkOK, threads, server,
                    manifests, archives, idx,
                    handle, now, usedIds, snap, order >>

\* manifest.json of a checkpoint is lost: the directory stays
ExtRemoveManifest(id) ==
    /\ manifests[id] # NoManifest
    /\ extOps < MaxExtOps
    /\ extOps' = extOps + 1
    /\ manifests' = [manifests EXCEPT ![id] = NoManifest]
    /\ last' = Outcome("External", "none", "")
    /\ UNCHANGED << fs, inodes, umask, linkOK, threads, server,
                    archives, idx, idxFile,
                    handle, now, usedIds, snap, order >>

\* rm -rf of a checkpoint's directory
ExtRemoveCheckpoint(id) ==
    /\ IsDirAt(Disk, CheckpointDir(id))
    /\ manifests' = [manifests EXCEPT ![id] = NoManifest]
    /\ archives' = [archives EXCEPT ![id] = NoArchive]
    /\ extOps < MaxExtOps
    /\ extOps' = extOps + 1
    /\ fs' = RemoveAll(Disk, CheckpointDir(id)).fs
    /\ inodes' = Collect(RemoveAll(Disk, CheckpointDir(id))).ino
    /\ last' = Outcome("External", "none", "")
    /\ UNCHANGED << umask, linkOK, threads, server,
                    idx, idxFile, handle, now, usedIds, snap,
                    order >>

\* a later invocation of the program: the global index is loaded again
\* and no handle survives
NewProcess ==
    /\ idx.loaded \/ handle # NoHandle
    /\ idx' = NewIndex
    /\ handle' = NoHandle
    /\ last' = Outcome("NewProcess", "none", "")
    /\ UNCHANGED << fs, inodes, umask, linkOK, threads, server,
                    manifests, archives, idxFile,
                    now, usedIds, extOps, snap, order >>

Tick ==
    /\ now < MaxTime
    /\ now' = now + 1
    /\ UNCHANGED << fs, inodes, umask, linkOK, threads, server,
                    manifests, archives, idx,
                    idxFile, handle, usedIds, extOps, last, snap, order >>

\* ------------------------------------------------------------------------
\* Goroutines of one process calling Add, Update, Remove and ListEntries
\* on the global Index.  A method is a sequence of steps between the
\* locking and the unlocking of idx.mu
\* ------------------------------------------------------------------------
MaxCalls == 2
Threads == {"t1", "t2"}
IndexOps == {"Add", "Remove", "ListEntries"}

NoView == << [id |-> "unread"] >>
Idle ==
    [pc |-> "idle", op |-> "", cp |-> NoHandle, seq |-> 0, calls |-> 0,
     view |-> NoView, at |-> 0]

\* mu: the sync.RWMutex of the Index; log: the mutations that have
\* returned; drawn: the sequence numbers Add has handed out
NoThreads ==
    [mu |-> [writer |-> "none", readers |-> {}],
     th |-> [t \in Threads |-> Idle],
     log |-> <<>>, drawn |-> <<>>]

\* the steps that change the Index, and those that read it
Mutating == {"seq", "bump", "store", "delete", "save", "unlock"}
Reading == {"read", "runlock"}

\* a Lock that waits for nobody
CanLock_NoWait(mu) == TRUE
\* idx.mu.Lock() returns when nobody holds the mutex
CanLock(mu) == mu.writer = "none" /\ mu.readers = {}
\* idx.mu.RLock() returns when no writer holds it
CanRLock(mu) == mu.writer = "none"

\* Adds that have not drawn their sequence number yet
Pending ==
    Cardinality({t \in Threads : /\ threads.th[t].op = "Add"
                                 /\ threads.th[t].pc \in {"lock", "seq",
                                                          "bump"}})

\* a goroutine calls GetIndex().Add(cp), .Update(cp), .Remove(cp.id) or
\* .ListEntries(); GetIndex loads the Index under globalIndexMu
Call(t, op, id) ==
    /\ threads.th[t].pc = "idle"
    /\ threads.th[t].calls < MaxCalls
    /\ op = "Add" => idx.nextSeq + Pending < MaxSeq
    /\ threads' = [threads EXCEPT !.th[t] =
           [@ EXCEPT !.pc = IF op = "ListEntries" THEN "rlock" ELSE "lock",
                     !.op = op,
                     !.cp = Checkpoint(id, NewManifest(id, <<>>)),
                     !.calls = @ + 1]]
    /\ idx' = GetIndex(IndexState, Disk, manifests).idx
    /\ idxFile' = GetIndex(IndexState, Disk, manifests).file
    /\ last' = Outcome(op, id, "")
    /\ UNCHANGED << fs, inodes, umask, linkOK, server, manifests, archives,
                    handle, now, usedIds, extOps, snap, order >>

\* what a step of a goroutine leaves alone
ThreadFrame ==
    UNCHANGED << fs, inodes, umask, linkOK, server, manifests, archives,
                 handle, now, usedIds, extOps, last, snap, order >>

\* idx.mu.Lock()
Lock(t) ==
    /\ threads.th[t].pc = "lock"
    /\ CanLock(threads.mu)
    /\ threads' = [threads EXCEPT
           !.mu.writer = t,
           !.th[t].pc = IF threads.th[t].op = "Add" THEN "seq"
                        ELSE "delete"]
    /\ UNCHANGED << idx, idxFile >>
    /\ ThreadFrame

\* seq := idx.NextSequence
AddSeq(t) ==
    /\ threads.th[t].pc = "seq"
    /\ threads' = [threads EXCEPT !.th[t].seq = idx.nextSeq,
                                  !.th[t].pc = "bump"]
    /\ UNCHANGED << idx, idxFile >>
    /\ ThreadFrame

\* idx.NextSequence++
AddBump(t) ==
    /\ threads.th[t].pc = "bump"
    /\ idx' = [idx EXCEPT !.nextSeq = @ + 1]
    /\ threads' = [threads EXCEPT !.th[t].pc = "store"]
    /\ UNCHANGED idxFile
    /\ ThreadFrame

\* idx.Entries[cp.ID] = &IndexEntry{...}
AddStore(t) ==
    /\ threads.th[t].pc = "store"
    /\ idx' = [idx EXCEPT !.entries[threads.th[t].cp.id] =
                   IndexEntry(threads.th[t].cp.id,
                              threads.th[t].cp.manifest,
                              threads.th[t].seq)]
    /\ threads' = [threads EXCEPT
           !.th[t].pc = "save",
           !.drawn = Append(@, threads.th[t].seq)]
    /\ UNCHANGED idxFile
    /\ ThreadFrame

\* delete(idx.Entries, id)
RemoveDelete(t) ==
    /\ threads.th[t].pc = "delete"
    /\ idx' = [idx EXCEPT !.entries[threads.th[t].cp.id] = NoEntry]
    /\ threads' = [threads EXCEPT !.th[t].pc = "save"]
    /\ UNCHANGED idxFile
    /\ ThreadFrame

\* idx.saveLocked()
SaveStep(t) ==
    /\ threads.th[t].pc = "save"
    /\ idxFile' = SavedTo(idx, idxFile).file
    /\ threads' = [threads EXCEPT !.th[t].pc = "unlock"]
    /\ UNCHANGED idx
    /\ ThreadFrame

\* the deferred idx.mu.Unlock(): the method returns
Unlock(t) ==
    /\ threads.th[t].pc = "unlock"
    /\ threads' = [threads EXCEPT
           !.mu.writer = IF @ = t THEN "none" ELSE @,
           !.th[t].pc = "idle",
           !.log = Append(@, << threads.th[t].op, threads.th[t].cp.id >>)]
    /\ UNCHANGED << idx, idxFile >>
    /\ ThreadFrame

\* idx.mu.RLock()
RLock(t) ==
    /\ threads.th[t].pc = "rlock"
    /\ CanRLock(threads.mu)
    /\ threads' = [threads EXCEPT !.mu.readers = @ \cup {t},
                                  !.th[t].pc = "read"]
    /\ UNCHANGED << idx, idxFile >>
    /\ ThreadFrame

\* ListEntries collects and sorts; at: how many mutations had returned
ReadEntries(t) ==
    /\ threads.th[t].pc = "read"
    /\ \E l \in ListEntries(idx) :
        threads' = [threads EXCEPT !.th[t].view = l,
                                   !.th[t].at = Len(threads.log),
                                   !.th[t].pc = "runlock"]
    /\ UNCHANGED << idx, idxFile >>
    /\ ThreadFrame

\* the deferred idx.mu.RUnlock()
RUnlock(t) ==
    /\ threads.th[t].pc = "runlock"
    /\ threads' = [threads EXCEPT !.mu.readers = @ \ {t},
                                  !.th[t].pc = "idle"]
    /\ UNCHANGED << idx, idxFile >>
    /\ ThreadFrame

\* ------------------------------------------------------------------------
\* The tool-call server: one request on each line of standard input, the
\* responses on standard output
\* ------------------------------------------------------------------------
MaxLines == 3

\* a line of input: whether json.Unmarshal takes it, its method, whether
\* the params of a tools/call can be read, the tool named and its id
Line(json, method, params, tool, id) ==
    [json |-> json, method |-> method, params |-> params, tool |-> tool,
     id |-> id]
NoLine == Line(FALSE, "none", FALSE, "", "none")
Methods ==
    {"initialize", "notifications/initialized", "tools/list", "ping",
     "bogus"}
RequestLines ==
    {Line(TRUE, m, TRUE, "", "none") : m \in Methods}
    \cup {Line(FALSE, "", FALSE, "", "none"),
          Line(TRUE, "tools/call", FALSE, "", "none"),
          Line(TRUE, "tools/call", TRUE, "nosuch", "none")}
    \cup {Line(TRUE, "tools/call", TRUE, "checkpoint_rollback", id) :
            id \in Ids}

\* NewServer has not run
NoServer ==
    [state |-> "off", lines |-> <<>>, tail |-> NoLine, out |-> <<>>,
     ret |-> ""]

\* what standard output receives, a line each: a response with a result,
\* a response with an error, or text that is no response.  The request
\* on line n carries the id n; a response to no request carries 0
sendResult(id, isError) ==
    [type |-> "result", id |-> id, code |-> 0, isError |-> isError]
sendError(id, code) ==
    [type |-> "error", id |-> id, code |-> code, isError |-> FALSE]
sendToolError(id) == sendResult(id, TRUE)
Println == [type |-> "text", id |-> 0, code |-> 0, isError |-> FALSE]

\* fmt.Println and fmt.Printf of the rollback engine, which write to the
\* standard output of the process
Printed(cp, r) ==
    (IF cp.manifest.compressed /\ r.err # "already"
     THEN << Println >> ELSE <<>>)
    \o (IF r.err = "" THEN << Println >> ELSE <<>>)

\* the checkpoint_rollback tool: [w, out, err]
toolCheckpointRollback(W, id) ==
    IF Get(W.M, id) = NoHandle
    THEN [w |-> W, out |-> <<>>, err |-> "notfound"]
    ELSE IF Get(W.M, id).manifest.rolledBack
    THEN [w |-> W, out |-> <<>>, err |-> "already"]
    ELSE [w |-> Rollback(W, Get(W.M, id)).w,
          out |-> Printed(Get(W.M, id), Rollback(W, Get(W.M, id))),
          err |-> Rollback(W, Get(W.M, id)).err]

\* handleCallTool for the request on line n: [w, out]
handleCallTool(W, line, n) ==
    IF ~line.params
    THEN [w |-> W, out |-> << sendError(n, -32602) >>]
    ELSE IF line.tool # "checkpoint_rollback"
    THEN [w |-> W, out |-> << sendToolError(n) >>]
    ELSE [w |-> toolCheckpointRollback(W, line.id).w,
          out |-> toolCheckpointRollback(W, line.id).out
                  \o << IF toolCheckpointRollback(W, line.id).err # ""
                        THEN sendToolError(n)
                        ELSE sendResult(n, FALSE) >>]

\* handleRequest: [w, out]
handleRequest(W, line, n) ==
    CASE line.method = "initialize" ->
            [w |-> W, out |-> << sendResult(n, FALSE) >>]
      [] line.method = "notifications/initialized" ->
            [w |-> W, out |-> <<>>]
      [] line.method = "tools/list" ->
            [w |-> W, out |-> << sendResult(n, FALSE) >>]
      [] line.method = "tools/call" -> handleCallTool(W, line, n)
      [] line.method = "ping" ->
            [w |-> W, out |-> << sendResult(n, FALSE) >>]
      [] OTHER -> [w |-> W, out |-> << sendError(n, -32601) >>]

\* safeshell mcp: a process of its own
NewServer ==
    /\ server.state = "off"
    /\ server' = [NoServer EXCEPT !.state = "running"]
    /\ idx' = NewIndex
    /\ handle' = NoHandle
    /\ last' = Outcome("NewServer", "none", "")
    /\ UNCHANGED << fs, inodes, umask, linkOK, threads, manifests, archives,
                    idxFile, now, usedIds, extOps, snap, order >>

\* Run, one turn of its loop: ReadBytes gives a whole line
Serve(line) ==
    /\ server.state = "running"
    /\ Len(server.lines) < MaxLines
    /\ SeqRoom
    /\ \E r \in {IF line.json
                 THEN handleRequest(World, line, Len(server.lines) + 1)
                 ELSE [w |-> World, out |-> << sendError(0, -32700) >>]} :
        /\ Becomes(r.w)
        /\ server' = [server EXCEPT !.lines = Append(@, line),
                                    !.out = @ \o r.out]
        /\ last' = Outcome("Serve", line.id, "")
    /\ UNCHANGED << umask, linkOK, threads, handle, now, usedIds, extOps,
                    snap, order >>

\* Run, its last turn: ReadBytes gives an error.  With io.EOF it gives
\* what the input held after its last newline, and Run returns nil
EndOfInput(tail, readErr) ==
    /\ server.state = "running"
    /\ server' = [server EXCEPT
           !.state = "returned", !.tail = tail,
           !.ret = IF readErr = "EOF" THEN "" ELSE "read error"]
    /\ last' = Outcome("Run", "none", readErr)
    /\ UNCHANGED << fs, inodes, umask, linkOK, threads, manifests, archives,
                    idx, idxFile, handle, now, usedIds, extOps, snap,
                    order >>

\* ------------------------------------------------------------------------
\* Initial state: the user's tree, an empty checkpoints directory
\* ------------------------------------------------------------------------
InitTree(aMode) ==
    LET F == [p \in Paths |->
                CASE p \in {WorkingDir, Proj, ProjGit, Build, CheckpointsDir}
                        -> DirNode(M755)
                  [] p = ProjA -> FileNode(1)
                  [] p = ProjGitCfg -> FileNode(2)
                  [] p = BuildB -> FileNode(3)
                  [] p = Other -> FileNode(4)
                  [] p = Sibling -> FileNode(5)
                  [] p = ProjLnk -> SymNode
                  [] OTHER -> NoNode]
        N == [i \in Inos |->
                CASE i = 1 -> [bytes |-> "A", mode |-> aMode]
                  [] i = 2 -> [bytes |-> "B", mode |-> M644]
                  [] i = 3 -> [bytes |-> "A", mode |-> M644]
                  [] i = 4 -> [bytes |-> "A", mode |-> M644]
                  [] i = 5 -> [bytes |-> "B", mode |-> M644]
                  [] OTHER -> FreeIno]
    IN  [fs |-> F, ino |-> N]

Init ==
    /\ \E aMode \in {M644, M664} :
        /\ fs = InitTree(aMode).fs
        /\ inodes = InitTree(aMode).ino
    /\ umask \in Umasks
    /\ linkOK \in BOOLEAN
    /\ manifests = [id \in Ids |-> NoManifest]
    /\ archives = [id \in Ids |-> NoArchive]
    /\ idx = NewIndex
    /\ idxFile = [state |-> "missing", entries |-> EmptyEntries, nextSeq |-> 0]
    /\ handle = NoHandle
    /\ now = 0
    /\ usedIds = {}
    /\ extOps = 0
    /\ last = Outcome("Init", "none", "")
    /\ snap = [id \in Ids |-> [p \in OrigPaths |-> NoSnap]]
    /\ order = <<>>
    /\ threads = NoThreads
    /\ server = NoServer

TargetPaths == {Proj, ProjA, Build, LongName}
TargetLists == UNION {[1..n -> TargetPaths] : n \in 1..MaxTargets}
RestoreTargets == UNION {[1..n -> {Proj, ProjA, Build}] : n \in 1..MaxTargets}

\* the command lines given to the wrapper
WrappedCommands ==
    {[cmdName |-> "rm", args |-> << Flag("-rf"), PathArg(p) >>] :
        p \in {Proj, Build, ProjA}}
    \cup {[cmdName |-> "rm", args |-> << PathArg(ProjA), PathArg(BuildB) >>],
          [cmdName |-> "cp", args |-> << PathArg(ProjGitCfg), PathArg(ProjA) >>],
          [cmdName |-> "cp", args |-> << Flag("-p"), PathArg(BuildB),
                                       PathArg(ProjA) >>],
          [cmdName |-> "cp", args |-> << PathArg(ProjA) >>]}

\* the whole system: every operation on every input of the bounds
Next ==
    \/ \E id \in Ids, t \in TargetLists : Create(id, t)
    \/ \E id \in Ids : GetCheckpoint(id)
    \/ \E id \in Ids : Delete(id)
    \/ GetLatest
    \/ \E olderThan \in 0..MaxTime : Clean(olderThan)
    \/ \E id \in Ids, tag \in TagNames : AddTag(id, tag)
    \/ \E id \in Ids, tag \in TagNames : RemoveTag(id, tag)
    \/ \E id \in Ids, note \in Notes : SetNote(id, note)
    \/ \E id \in Ids : Compress(id)
    \/ \E id \in Ids : Decompress(id)
    \/ RollbackHandle
    \/ \E id \in Ids : RollbackByID(id)
    \/ \E id \in Ids : Diff(id)
    \/ \E id \in Ids : ToolDiff(id)
    \/ \E id \in Ids, c \in WrappedCommands : Wrap(id, c.cmdName, c.args)
    \/ \E f \in SUBSET {ProjA, BuildB} : RollbackSelectiveHandle(f)
    \/ RollbackToPathHandle
    \/ \E f \in SUBSET {ProjA, BuildB} : RollbackSelectiveToPathHandle(f)
    \/ \E p \in {ProjA, BuildB} : ExtRemove(p)
    \/ \E p \in {Proj, Build} : ExtRemoveAll(p)
    \/ \E p \in {ProjA, BuildB}, b \in Bytes, m \in FileModes :
          ExtReplace(p, b, m)
    \/ \E p \in {ProjA, BuildB}, m \in FileModes : ExtChmod(p, m)
    \/ \E p \in {ProjA, BuildB} : ExtTruncate(p)
    \/ \E p \in {ProjA, BuildB} : ExtSymlink(p, DestRoot)
    \/ \E id \in Ids : ExtProtect(id)
    \/ NewProcess
    \/ Tick

Spec == Init /\ [][Next]_vars

\* The scenarios below are parts of Spec, each small enough to be explored
\* in full: the same actions, on fewer inputs.
\* ------------------------------------------------------------------------
\* Specification of the restore scenarios: checkpoints of the user's tree,
\* the destructive command, the rollback variants
\* ------------------------------------------------------------------------
InitRestore ==
    /\ fs = InitTree(M644).fs
    /\ inodes = InitTree(M644).ino
    /\ umask = {"gw"}
    /\ linkOK \in BOOLEAN
    /\ manifests = [id \in Ids |-> NoManifest]
    /\ archives = [id \in Ids |-> NoArchive]
    /\ idx = NewIndex
    /\ idxFile = [state |-> "missing", entries |-> EmptyEntries, nextSeq |-> 0]
    /\ handle = NoHandle
    /\ now = 0
    /\ usedIds = {}
    /\ extOps = 0
    /\ last = Outcome("Init", "none", "")
    /\ snap = [id \in Ids |-> [p \in OrigPaths |-> NoSnap]]
    /\ order = <<>>
    /\ threads = NoThreads
    /\ server = NoServer

\* checkpoints are numbered in the order of creation where the ID's random
\* part plays no role
NextId == IdNames[Cardinality(usedIds) + 1]

\* Create alone: one checkpoint over every list of targets, of a tree the
\* user may have changed before
NextCreate ==
    \/ \E id \in Ids, t \in TargetLists : usedIds = {} /\ Create(id, t)
    \/ ExtRemove(ProjA)
    \/ \E p \in {Proj, Build} : ExtRemoveAll(p)
    \/ ExtChmod(ProjA, M755)
    \/ \E id \in Ids : Delete(id)

SpecCreate == InitRestore /\ [][NextCreate]_vars

\* a checkpoint, the destructive command, full rollbacks
NextRollback ==
    \/ \E t \in RestoreTargets : usedIds = {} /\ Create(NextId, t)
    \/ \E id \in Ids : GetCheckpoint(id)
    \/ \E id \in Ids : Compress(id)
    \/ RollbackHandle
    \/ \E id \in Ids : RollbackByID(id)
    \/ ExtRemove(ProjA)
    \/ \E p \in {Proj, Build} : ExtRemoveAll(p)
    \/ ExtReplace(ProjA, "B", M644)
    \/ ExtChmod(ProjA, M755)

SpecRollback == InitRestore /\ [][NextRollback]_vars

\* a checkpoint, partial restores and restores to another place
NextPartial ==
    \/ \E t \in {<<Proj>>, <<ProjA>>} : usedIds = {} /\ Create(NextId, t)
    \/ \E id \in Ids : GetCheckpoint(id)
    \/ \E id \in Ids : Compress(id)
    \/ RollbackHandle
    \/ RollbackSelectiveHandle({ProjA})
    \/ RollbackToPathHandle
    \/ RollbackSelectiveToPathHandle({ProjA})
    \/ ExtRemove(ProjA)

SpecPartial == InitRestore /\ [][NextPartial]_vars

\* a checkpoint that is compressed and decompressed
InitCompress ==
    /\ \E aMode \in {M644, M664} :
        /\ fs = InitTree(aMode).fs
        /\ inodes = InitTree(aMode).ino
    /\ umask \in Umasks
    /\ linkOK \in BOOLEAN
    /\ manifests = [id \in Ids |-> NoManifest]
    /\ archives = [id \in Ids |-> NoArchive]
    /\ idx = NewIndex
    /\ idxFile = [state |-> "missing", entries |-> EmptyEntries, nextSeq |-> 0]
    /\ handle = NoHandle
    /\ now = 0
    /\ usedIds = {}
    /\ extOps = 0
    /\ last = Outcome("Init", "none", "")
    /\ snap = [id \in Ids |-> [p \in OrigPaths |-> NoSnap]]
    /\ order = <<>>
    /\ threads = NoThreads
    /\ server = NoServer

NextCompress ==
    \/ \E t \in {<<Proj>>, <<ProjA>>} : usedIds = {} /\ Create(NextId, t)
    \/ \E id \in Ids : Compress(id)
    \/ \E id \in Ids : Decompress(id)
    \/ ExtChmod(ProjA, M755)
    \/ ExtRemove(ProjA)

SpecCompress == InitCompress /\ [][NextCompress]_vars

\* the store and its index: checkpoints of one file
NextIndex ==
    \/ \E id \in Ids, t \in {<<ProjA>>, <<LongName>>} : Create(id, t)
    \/ \E id \in Ids : Delete(id)
    \/ \E id \in Ids, tag \in TagNames : AddTag(id, tag)
    \/ \E id \in Ids, tag \in TagNames : RemoveTag(id, tag)
    \/ \E id \in Ids, note \in Notes : SetNote(id, note)
    \/ \E id \in Ids : Compress(id)
    \/ \E id \in Ids : Decompress(id)
    \/ \E olderThan \in 0..MaxTime : Clean(olderThan)
    \/ GetLatest
    \/ NewProcess
    \/ Tick

InitIndex == InitRestore /\ linkOK

SpecIndex == InitIndex /\ [][NextIndex]_vars

\* ------------------------------------------------------------------------
\* Properties
\* ------------------------------------------------------------------------
Entries(id) ==
    IF manifests[id] = NoManifest THEN {} ELSE Range(manifests[id].files)

\* C1: once the persisted manifest of a checkpoint has rolledBack = true,
\* every later full Rollback of that checkpoint is rejected as already
\* rolled back and writes to no original path, whenever the handle passed
\* to it was obtained.
C1_NoDoubleRollback ==
    (last.op = "Rollback" /\ last.preRolledBack)
        => (last.err = "already" /\ last.wrote = {})

\* C2: a file backed up by Create and restored by a full Rollback, not
\* modified in place in between, has the bytes and the permission bits it
\* had when Create ran.
C2_RoundTrip ==
    last.op = "Rollback" =>
        \A p \in last.restored \cap OrigPaths :
            snap[last.id][p] \notin {NoSnap, Dirty} =>
                /\ IsFileAt(Disk, p)
                /\ BytesAt(Disk, p) = snap[last.id][p].bytes
                /\ ModeAt(Disk, p) = snap[last.id][p].mode

\* the regular files directory d held at Create, less those below an
\* excluded sub-directory or with an excluded base name
EligibleUnder(id, d) ==
    {p \in OrigPaths :
        /\ IsPrefix(d, p) /\ p # d
        /\ snap[id][p] \notin {NoSnap, Dirty}
        /\ ~\E q \in OrigPaths :
              IsPrefix(d, q) /\ q # d /\ IsPrefix(q, p) /\ shouldExclude(q)}

\* C3: for a directory target of any name, Create, deletion of the directory
\* and a full Rollback leave every eligible regular file of the directory at
\* its original path with its bytes of Create time, and Rollback succeeds.
C3_DeletedDirectoryRestored ==
    (last.op = "Rollback" /\ ~last.preRolledBack /\ last.err # "already"
     /\ last.dirsGone # {})
        => /\ last.err = ""
           /\ \A d \in last.dirsGone : \A p \in EligibleUnder(last.id, d) :
                 IsFileAt(Disk, p)
                 /\ BytesAt(Disk, p) = snap[last.id][p].bytes

\* the classifier skipped p during the walk of a directory target of m
SkippedByClassifier(m, p) ==
    \E i \in 1..Len(m.files) :
        /\ m.files[i].isDir
        /\ \E q \in OrigPaths :
              /\ IsPrefix(m.files[i].originalPath, q) /\ IsPrefix(q, p)
              /\ shouldSkipPath(Disk, q).skip
              /\ (q = p \/ shouldSkipPath(Disk, q).skipDir)

\* C4: after a successful Create, the backupPath of every FileEntry of the
\* persisted manifest exists on disk, except for the entries the classifier
\* skipped.
C4_BackupComplete ==
    (last.op = "Create" /\ last.err = "") =>
        \A e \in Entries(last.id) :
            Exists(Disk, e.backupPath)
            \/ SkippedByClassifier(manifests[last.id], e.originalPath)

\* C4 witness: a directory was checkpointed; one of its files is backed up
\* and another entry is one the classifier skipped
C4_Witness ==
    /\ last.op = "Create" /\ last.err = ""
    /\ \E e \in Entries(last.id) :
          ~e.isDir /\ Exists(Disk, e.backupPath)
          /\ ~SkippedByClassifier(manifests[last.id], e.originalPath)
    /\ \E e \in Entries(last.id) :
          ~Exists(Disk, e.backupPath)
          /\ SkippedByClassifier(manifests[last.id], e.originalPath)

\* p is a symlink, or lies inside an excluded sub-directory of directory d
ExcludedInside(d, p) ==
    /\ IsPrefix(d, p) /\ p # d
    /\ \/ isSymlink(Disk, p)
       \/ \E q \in OrigPaths :
             /\ IsPrefix(d, q) /\ q # d /\ IsPrefix(q, p) /\ q # p
             /\ IsDirAt(Disk, q) /\ shouldExclude(q)

\* C5: after Create of a directory that holds an excluded sub-directory or
\* a symlink, no path inside the excluded sub-directory and no symlink is a
\* FileEntry of the manifest or a file of the backup tree.
C5_ExcludedNotRecorded ==
    (last.op = "Create" /\ last.err = "") =>
        \A d \in {e.originalPath : e \in {x \in Entries(last.id) : x.isDir}} :
            \A p \in OrigPaths :
                ExcludedInside(d, p) =>
                    /\ \A e \in Entries(last.id) : e.originalPath # p
                    /\ ~Exists(Disk, BackupPathOf(last.id, p))

PartialRestores ==
    {"RollbackSelective", "RollbackToPath", "RollbackSelectiveToPath"}

\* C6: RollbackSelective, RollbackToPath and RollbackSelectiveToPath leave
\* the rolledBack flag of the persisted manifest as it was, whether they
\* succeed or report failures.
C6_PartialKeepsRolledBack ==
    last.op \in PartialRestores =>
        PersistedRolledBack(last.id) = last.preRolledBack

\* C6 witness: a selective restore put a file back and the persisted
\* manifest still says the checkpoint is not rolled back
C6_Witness ==
    /\ last.op = "RollbackSelective"
    /\ last.err = ""
    /\ last.restored = {ProjA}
    /\ manifests[last.id] # NoManifest
    /\ ~manifests[last.id].rolledBack

\* the checkpoints that exist, oldest first
Existing == SelectSeq(order, LAMBDA id : manifests[id] # NoManifest)

\* C7: GetLatest returns the existing checkpoint created most recently, and
\* an error only when no checkpoint exists.
C7_GetLatestIsNewest ==
    last.op = "GetLatest" =>
        IF Existing = <<>> THEN last.err = "nocheckpoints"
        ELSE last.err = "" /\ last.id = Existing[Len(Existing)]

\* a was created after b
CreatedAfter(a, b) ==
    \E i, j \in 1..Len(order) : order[i] = a /\ order[j] = b /\ i > j

\* C8: ListEntries is ordered by timestamp descending and, among equal
\* timestamps, by creation order, the later created first.
C8_ListOrder ==
    idx.loaded =>
        \A s \in ListEntries(idx) : \A i, j \in 1..Len(s) :
            i < j => \/ s[i].ts > s[j].ts
                     \/ s[i].ts = s[j].ts /\ CreatedAfter(s[i].id, s[j].id)

\* C9: after every Store operation, failed ones included, and after every
\* load, the IDs of the Index are the checkpoint directories on disk.
C9_IndexMatchesDisk ==
    idx.loaded => IndexIds(idx) = CheckpointDirIds(Disk)

\* the backup tree of a checkpoint as Compress reads it: relative path,
\* kind, mode and content of everything below the files directory
BackupTree(D, id) ==
    LET w == TreeWalk(D, GetFilesDir(id))
    IN  [i \in 1..Len(w) |-> TarEntry(D, GetFilesDir(id), w[i])]

\* C10: Decompress of a compressed checkpoint reproduces the backup tree
\* that Compress archived (paths, sizes, contents, modes), and the manifest
\* has compressed = false again.
C10_CompressRoundTrip ==
    [][\A id \in Ids :
          (/\ last'.op = "Decompress" /\ last'.id = id /\ last'.err = ""
           /\ archives[id].state = "ok" /\ archives'[id].state = "none")
          => /\ BackupTree([fs |-> fs', ino |-> inodes'], id)
                  = archives[id].entries
             /\ ~manifests'[id].compressed]_vars

\* ------------------------------------------------------------------------
\* Specification of the readers of backup copies: a checkpoint that may be
\* compressed, the rollback variants, the two diffs
\* ------------------------------------------------------------------------
NextDiff ==
    \/ \E t \in {<<Proj>>, <<ProjA>>} : usedIds = {} /\ Create(NextId, t)
    \/ \E id \in Ids : GetCheckpoint(id)
    \/ \E id \in Ids : Compress(id)
    \/ RollbackHandle
    \/ RollbackSelectiveHandle({ProjA})
    \/ RollbackToPathHandle
    \/ RollbackSelectiveToPathHandle({ProjA})
    \/ \E id \in Ids : Diff(id)
    \/ \E id \in Ids : ToolDiff(id)
    \/ ExtTruncate(ProjA)
    \/ ExtRemove(ProjA)

SpecDiff == InitRestore /\ [][NextDiff]_vars

Readers ==
    {"Rollback", "RollbackSelective", "RollbackToPath",
     "RollbackSelectiveToPath", "Diff", "ToolDiff"}

\* C11: no reader of backup copies (the four rollback variants, the diff
\* command, the diff tool) consults a backupPath while the checkpoint's
\* backup exists only as an archive: each decompresses first.
C11_ReadersDecompressFirst ==
    (last.op \in Readers /\ last.probed # {}) => ~last.archiveOnly

\* ------------------------------------------------------------------------
\* Specification of rollbacks in which entries fail: backups that are
\* missing (entries recorded without a backup, a checkpoint compressed
\* behind the handle) and backups that cannot be read
\* ------------------------------------------------------------------------
NextFailures ==
    \/ \E t \in {<<Proj, BuildB>>, <<ProjA, BuildB>>} :
          usedIds = {} /\ Create(NextId, t)
    \/ \E id \in Ids : Compress(id)
    \/ RollbackHandle
    \/ \E id \in Ids : RollbackByID(id)
    \/ ExtChmod(ProjA, M000)
    \/ \E p \in {ProjA, BuildB} : ExtRemove(p)
    \/ ExtRemoveAll(Proj)

SpecFailures == InitRestore /\ [][NextFailures]_vars

\* the backup copy of entry f can be read
Restorable(f) ==
    IsFileAt(Disk, f.backupPath) /\ "ur" \in ModeAt(Disk, f.backupPath)

\* C12: in a rollback whose loop ran, an entry that fails (its backup is
\* missing, or its restore fails) stops nothing: every entry whose backup
\* can be read is restored and stays restored, and the call returns the
\* aggregate error exactly when at least one entry failed.
C12_FailuresDoNotAbort ==
    (last.op = "Rollback" /\ last.err \in {"", "failed"}) =>
        /\ (last.err = "failed") <=> (last.failed > 0)
        /\ \A f \in Entries(last.id) :
              (~f.isDir /\ Restorable(f)) =>
                  /\ f.originalPath \in last.restored
                  /\ IsFileAt(Disk, f.originalPath)
                  /\ BytesAt(Disk, f.originalPath)
                        = BytesAt(Disk, f.backupPath)

\* a rollback in which one entry had no backup copy, the restore of
\* another failed, and an entry after both in the manifest was restored
C12_Witness ==
    /\ last.op = "Rollback" /\ last.err = "failed"
    /\ last.failed > 1
    /\ \E i, k, j \in 1..Len(manifests[last.id].files) :
          /\ i < j /\ k < j
          /\ ~manifests[last.id].files[i].isDir
          /\ ~Exists(Disk, manifests[last.id].files[i].backupPath)
          /\ ~manifests[last.id].files[k].isDir
          /\ Exists(Disk, manifests[last.id].files[k].backupPath)
          /\ ~Restorable(manifests[last.id].files[k])
          /\ manifests[last.id].files[j].originalPath \in last.restored

\* C13: Create returns an error only when the checkpoint directory cannot
\* be created or the manifest cannot be persisted: a call that created
\* the checkpoint directory returns no error for anything that concerns
\* one of its targets, and the checkpoint is created.
C13_CreateFailsOnlyOnSetup ==
    (last.op = "Create" /\ IsDirAt(Disk, CheckpointDir(last.id))) =>
        /\ last.err = ""
        /\ Get(manifests, last.id) # NoHandle

\* C14: a file that was not empty when it was checkpointed and is then
\* truncated to zero bytes in place is classified as modified by the diff
\* that follows, by the command and by the tool, whether its backup is a
\* hard link or a copy.
C14_TruncatedIsModified ==
    [][\A id \in Ids, p \in OrigPaths :
          (/\ last.op = "External" /\ snap[id][p] = Dirty
           /\ \E f \in Entries(id) : f.originalPath = p /\ ~f.isDir
           /\ last'.op \in {"Diff", "ToolDiff"} /\ last'.id = id
           /\ last'.err = "")
          => {d.status : d \in {e \in last'.diffs : e.path = p}}
                = {"modified"}]_vars

\* ------------------------------------------------------------------------
\* Specification of the wrapper: wrapped commands on the user's tree, and
\* rollbacks of the checkpoints they made
\* ------------------------------------------------------------------------
NextWrap ==
    \/ \E c \in WrappedCommands : Wrap(NextId, c.cmdName, c.args)
    \/ \E id \in Ids : RollbackByID(id)
    \/ ExtChmod(ProjA, M000)
    \/ ExtReplace(ProjA, "B", M644)

SpecWrap == InitRestore /\ [][NextWrap]_vars

\* C15: after a wrapped cp whose destination was an existing regular
\* file, the rollback of the checkpoint made for that invocation leaves the
\* destination with the content it had before the cp ran, whether the
\* backup is a hard link or a copy.
C15_CpOverwriteRestored ==
    [][(/\ last.op = "Wrap" /\ last.cmd = "cp" /\ last.err = ""
        /\ Len(last.targets) = 1
        /\ last'.op = "Rollback" /\ last'.id = last.id)
       => \A dst \in Range(last.targets) :
             snap[last.id][dst] # NoSnap =>
                /\ fs'[dst].kind = "file"
                /\ inodes'[fs'[dst].ino].bytes = snap[last.id][dst].bytes]_vars

\* C16: whenever Wrap runs a supported command with at least one existing
\* target, a checkpoint covering those targets was created and persisted
\* before the real command started.
C16_CheckpointBeforeCommand ==
    (last.op = "Wrap" /\ Len(last.targets) > 0) =>
        /\ last.err = ""
        /\ Get(manifests, last.id) # NoHandle
        /\ last.uncovered = {}

\* ------------------------------------------------------------------------
\* Specification of several checkpoints: each of one file or of the
\* directory, files removed or replaced by a symlink, full rollbacks
\* ------------------------------------------------------------------------
NextFrame ==
    \/ \E t \in {<<ProjA>>, <<BuildB>>, <<Proj>>} : Create(NextId, t)
    \/ \E id \in Ids : Compress(id)
    \/ \E id \in Ids : RollbackByID(id)
    \/ \E p \in {ProjA, BuildB} : ExtRemove(p)
    \/ ExtSymlink(ProjA, DestRoot)

SpecFrame == InitRestore /\ [][NextFrame]_vars

\* what a path holds: the content and mode of a file, the kind otherwise
View(F, N, p) ==
    IF F[p].kind = "file"
    THEN [kind |-> "file", bytes |-> N[F[p].ino].bytes,
          mode |-> N[F[p].ino].mode]
    ELSE [kind |-> F[p].kind, bytes |-> "", mode |-> {}]

\* the original paths checkpoint id records as files
Recorded(id) == {f.originalPath : f \in {g \in Entries(id) : ~g.isDir}}

\* C17: a full Rollback of checkpoint C changes no file outside the
\* original paths C's manifest records (nothing outside C's own directory
\* becomes, ceases to be or changes as a file), and leaves the manifest,
\* the archive and the backup tree of every other checkpoint as they were.
C17_RollbackFrame ==
    [][\A id \in Ids :
          (/\ RollbackByID(id) \/ (RollbackHandle /\ handle.id = id)
           /\ last'.op = "Rollback" /\ last'.id = id) =>
             /\ \A p \in Paths :
                   (/\ ~IsPrefix(CheckpointDir(id), p)
                    /\ p \notin Recorded(id)
                    /\ "file" \in {fs[p].kind, fs'[p].kind})
                   => View(fs', inodes', p) = View(fs, inodes, p)
             /\ \A other \in Ids \ {id} :
                   /\ manifests'[other] = manifests[other]
                   /\ archives'[other] = archives[other]
                   /\ \A p \in Paths :
                         IsPrefix(CheckpointDir(other), p) =>
                            View(fs', inodes', p) = View(fs, inodes, p)]_vars

\* ------------------------------------------------------------------------
\* Specification of the removal of checkpoints: checkpoints of one file
\* made at different times, one of them possibly write-protected, Delete
\* and Clean
\* ------------------------------------------------------------------------
NextClean ==
    \/ \E id \in Ids : Create(id, <<ProjA>>)
    \/ \E id \in Ids : Delete(id)
    \/ \E olderThan \in 0..MaxTime : Clean(olderThan)
    \/ \E id \in Ids : ExtProtect(id)
    \/ NewProcess
    \/ Tick

SpecClean == InitIndex /\ [][NextClean]_vars

C19_DeleteFrame ==
    [][\A id \in Ids :
          (Delete(id) /\ last'.err = "") =>
             /\ Get(manifests', id) = NoHandle
             /\ fs'[CheckpointDir(id)].kind = "none"
             /\ idx'.entries[id] = NoEntry
             /\ idxFile'.entries[id] = NoEntry
             /\ \A other \in Ids \ {id} :
                   /\ manifests'[other] = manifests[other]
                   /\ archives'[other] = archives[other]
                   /\ \A p \in Paths : IsPrefix(CheckpointDir(other), p) =>
                         View(fs', inodes', p) = View(fs, inodes, p)
                   /\ idxFile'.entries[other] = idxFile.entries[other]]_vars

\* ------------------------------------------------------------------------
\* Specification of selective restores: a checkpoint of two files or of
\* the directory, files removed, replaced or turned into a symlink, the
\* restore of a chosen set of paths
\* ------------------------------------------------------------------------
\* the sets of paths handed to RollbackSelective: a recorded file, a
\* recorded file with a recorded directory, a recorded file with a path
\* the manifest may not hold
SelectedSets == { {ProjA}, {ProjA, Proj}, {BuildB, ProjGitCfg} }

NextSelective ==
    \/ \E t \in {<<ProjA, BuildB>>, <<Proj>>} :
          usedIds = {} /\ Create(NextId, t)
    \/ \E id \in Ids : GetCheckpoint(id)
    \/ \E id \in Ids : Compress(id)
    \/ \E sel \in SelectedSets : RollbackSelectiveHandle(sel)
    \/ \E p \in {ProjA, BuildB} : ExtRemove(p)
    \/ \E p \in {ProjA, BuildB} : ExtReplace(p, "B", M644)
    \/ \E to \in {BuildB, DestRoot} : ExtSymlink(ProjA, to)

SpecSelective == InitRestore /\ [][NextSelective]_vars

\* C20: RollbackSelective(checkpoint, paths) writes, outside the
\* checkpoint's own directory, only original paths that are in the supplied
\* set and recorded as non-directory entries of the manifest: nothing else
\* becomes, ceases to be or changes as a file, the other files the
\* checkpoint records included.
C20_SelectiveFrame ==
    [][\A sel \in SelectedSets :
          RollbackSelectiveHandle(sel) =>
             /\ last'.wrote \subseteq sel \cap Recorded(handle.id)
             /\ \A p \in Paths :
                   (/\ ~IsPrefix(CheckpointDir(handle.id), p)
                    /\ "file" \in {fs[p].kind, fs'[p].kind}
                    /\ View(fs', inodes', p) # View(fs, inodes, p))
                   => p \in sel \cap Recorded(handle.id)]_vars

\* ------------------------------------------------------------------------
\* Specification of restores to another place: a checkpoint of files
\* inside and outside the working directory, restored below /dst or below
\* the working directory itself
\* ------------------------------------------------------------------------
NextToPath ==
    \/ \E t \in {<<ProjA, Other>>, <<ProjA, Sibling>>, <<Proj>>} :
          usedIds = {} /\ Create(NextId, t)
    \/ \E id \in Ids : GetCheckpoint(id)
    \/ \E id \in Ids : Compress(id)
    \/ \E destPath \in {DestRoot, WorkingDir} : RollbackToPathAt(destPath)
    \/ ExtRemove(ProjA)
    \/ ExtReplace(ProjA, "B", M644)

SpecToPath == InitRestore /\ [][NextToPath]_vars

\* where C21 places an entry: below destPath at the original path made
\* relative to the working directory when the path lies inside it, at the
\* base name otherwise
Placed(destPath, originalPath) ==
    IF IsPrefix(WorkingDir, originalPath)
    THEN destPath \o Rel(WorkingDir, originalPath)
    ELSE destPath \o << Base(originalPath) >>

\* C21: RollbackToPath(cp, destPath) that returns no error has put every
\* non-directory entry at destPath joined with the original path relative
\* to the working directory (inside) or with its base name (outside), with
\* the content of the backup, and has written to no original path.
C21_ToPathPlacement ==
    [][\A destPath \in {DestRoot, WorkingDir} :
          (RollbackToPathAt(destPath) /\ last'.err = "") =>
             /\ \A p \in Recorded(handle.id) :
                   /\ Placed(destPath, p) \in last'.wrote
                   /\ fs'[Placed(destPath, p)].kind = "file"
             /\ last'.wrote \subseteq
                   {Placed(destPath, p) : p \in Recorded(handle.id)}
             /\ last'.wrote \cap OrigPaths = {}
             /\ \A p \in OrigPaths :
                   View(fs', inodes', p) = View(fs, inodes, p)]_vars

\* ------------------------------------------------------------------------
\* Specification of checkpoints of large files: a file of the tree may have
\* grown above the maximum file size before the checkpoint is made
\* ------------------------------------------------------------------------
NextSize ==
    \/ \E t \in {<<ProjA>>, <<Proj>>, <<ProjA, BuildB>>, <<Build, Proj>>} :
          Create(NextId, t)
    \/ \E p \in {ProjA, BuildB} : ExtReplace(p, Huge, M644)
    \/ ExtRemove(ProjA)
    \/ \E id \in Ids : Delete(id)

SpecSize == InitRestore /\ [][NextSize]_vars

\* C22: after Create, a file that exceeded the configured maximum file
\* size when Create ran is no entry of the manifest and has no backup, and
\* Create returned no error.
C22_LargeFilesSkipped ==
    \A id \in Ids, p \in OrigPaths :
        (/\ last.op = "Create" /\ last.id = id
         /\ snap[id][p] \notin {NoSnap, Dirty}
         /\ Size(snap[id][p].bytes) \div MiB > MaxFileSizeMB)
        => /\ last.err = ""
           /\ p \notin Recorded(id)
           /\ ~Exists(Disk, BackupPathOf(id, p))

\* ------------------------------------------------------------------------
\* Specification of Search: checkpoints of two files made by two commands
\* at different times, tagged or not, and searches by every criterion
\* ------------------------------------------------------------------------
NoOptions == SearchOptions(<<>>, "", <<>>, NoTime, NoTime)
SearchQueries ==
    { [NoOptions EXCEPT !.tag = "t"],
      [NoOptions EXCEPT !.tag = "T"],
      [NoOptions EXCEPT !.command = << "r", "m" >>],
      [NoOptions EXCEPT !.command = << "M" >>],
      [NoOptions EXCEPT !.fileName = << "a", ".", "t" >>],
      [NoOptions EXCEPT !.fileName = << "J", "/", "A" >>],
      [NoOptions EXCEPT !.after = 1],
      [NoOptions EXCEPT !.before = 0],
      [NoOptions EXCEPT !.tag = "t", !.command = << "c", "p" >>],
      [NoOptions EXCEPT !.fileName = << "b", "." >>, !.after = 1],
      [NoOptions EXCEPT !.command = << "r" >>, !.before = 0] }

NextSearch ==
    \/ \E command \in {<< "r", "m" >>, << "R", "M" >>, << "c", "p" >>},
          t \in {<<ProjA>>, <<BuildB>>} : CreateAs(NextId, command, t)
    \/ \E id \in Ids : AddTag(id, "t")
    \/ \E opts \in SearchQueries : Search(opts)
    \/ Tick

SpecSearch == InitIndex /\ [][NextSearch]_vars

\* whether checkpoint id meets the criteria q supplies; folded tells
\* whether command and file path are compared ignoring case
Meets(id, q, folded) ==
    /\ q.tag # "" =>
          \E t \in Range(manifests[id].tags) :
             ToLower(Chars(t)) = ToLower(Chars(q.tag))
    /\ q.command # <<>> =>
          IF folded
          THEN Contains(ToLower(manifests[id].command), ToLower(q.command))
          ELSE Contains(manifests[id].command, q.command)
    /\ q.fileName # <<>> =>
          \E f \in Entries(id) :
             IF folded
             THEN Contains(ToLower(PathString(f.originalPath)),
                           ToLower(q.fileName))
             ELSE Contains(PathString(f.originalPath), q.fileName)
    /\ q.after # NoTime => manifests[id].timestamp >= q.after
    /\ q.before # NoTime => manifests[id].timestamp <= q.before

C24_CreateLeavesTargets ==
    [][(usedIds' # usedIds /\ last'.op = "Create") =>
         \A p \in OrigPaths :
            /\ fs'[p].kind = fs[p].kind
            /\ fs[p].kind = "file" =>
                  inodes'[fs'[p].ino].bytes = inodes[fs[p].ino].bytes]_vars

\* ------------------------------------------------------------------------
\* Specification of compression on a failing volume: the archive's writes
\* may fail, an archive may be damaged afterwards
\* ------------------------------------------------------------------------
NextArchive ==
    \/ \E t \in {<<Proj>>, <<ProjA>>} : usedIds = {} /\ Create(NextId, t)
    \/ \E id \in Ids, fault \in Faults : CompressWith(id, fault)
    \/ \E id \in Ids : Decompress(id)
    \/ \E id \in Ids : ExtCorrupt(id)
    \/ \E id \in Ids : GetCheckpoint(id)
    \/ RollbackHandle
    \/ ExtRemove(ProjA)

SpecArchive == InitCompress /\ [][NextArchive]_vars

\* C25: a Compress after which the archive is not completely written has
\* left the files tree as it was and the manifest with compressed = false:
\* the tree is deleted only once the archive is written and closed.
C25_TreeOutlivesFailedArchive ==
    [][\A id \in Ids, fault \in Faults :
          (/\ CompressWith(id, fault)
           /\ Exists(Disk, GetFilesDir(id))
           /\ archives'[id].state # "ok")
          => /\ Exists([fs |-> fs', ino |-> inodes'], GetFilesDir(id))
             /\ BackupTree([fs |-> fs', ino |-> inodes'], id)
                   = BackupTree(Disk, id)
             /\ manifests'[id] # NoManifest => ~manifests'[id].compressed]_vars

\* every entry of the archive is in the files tree of D, a directory or a
\* file with the archived content
Extracted(D, id, entries) ==
    \A i \in 1..Len(entries) :
        IF entries[i].isDir
        THEN IsDirAt(D, GetFilesDir(id) \o entries[i].name)
        ELSE /\ IsFileAt(D, GetFilesDir(id) \o entries[i].name)
             /\ BytesAt(D, GetFilesDir(id) \o entries[i].name)
                   = entries[i].bytes

\* C26: a Decompress that removed the archive or cleared the persisted
\* compressed flag has extracted the whole archive into the files tree
\* first; a Decompress whose extraction failed leaves the archive and the
\* persisted manifest, compressed = true, as they were.
C26_DecompressCommitsLast ==
    [][\A id \in Ids :
          (Decompress(id) /\ manifests[id] # NoManifest
                          /\ manifests[id].compressed) =>
             /\ (archives'[id] = NoArchive \/ ~manifests'[id].compressed) =>
                   /\ last'.err = ""
                   /\ archives[id].state = "ok"
                   /\ Extracted([fs |-> fs', ino |-> inodes'], id,
                                archives[id].entries)
             /\ last'.err # "" =>
                   /\ archives'[id] = archives[id]
                   /\ manifests'[id] = manifests[id]]_vars

\* a Decompress that failed on an archive that does not read to its end
C26_Witness ==
    /\ last.op = "Decompress" /\ last.err = "decompress"
    /\ archives[last.id].state = "partial"
    /\ manifests[last.id].compressed

\* C27: for every checkpoint, the persisted compressed flag is true
\* exactly when the backup is the archive alone: files.tar.gz holds the
\* whole backup and there is no files tree beside it.
C27_FlagMatchesStorage ==
    \A id \in Ids :
        manifests[id] # NoManifest =>
            (manifests[id].compressed
                <=> (archives[id].state = "ok"
                     /\ ~Exists(Disk, GetFilesDir(id))))

\* C28: after a completed AddTag, RemoveTag, SetNote, Compress, Decompress
\* or full Rollback of a checkpoint, the entry of that checkpoint in the
\* persisted index agrees with the persisted manifest on tags, rolledBack,
\* compressed and compressedSize.
C28_IndexFollowsManifest ==
    \A id \in Ids :
        (/\ last.op \in {"AddTag", "RemoveTag", "SetNote", "Compress",
                         "Decompress", "Rollback"}
         /\ last.id = id /\ last.err = ""
         /\ manifests[id] # NoManifest
         /\ idxFile.entries[id] # NoEntry)
        => /\ idxFile.entries[id].tags = manifests[id].tags
           /\ idxFile.entries[id].rolledBack = manifests[id].rolledBack
           /\ idxFile.entries[id].compressed = manifests[id].compressed
           /\ idxFile.entries[id].compressedSize
                 = manifests[id].compressedSize

\* ------------------------------------------------------------------------
\* Specification of rollbacks through a handle that other operations have
\* overtaken: the checkpoint is tagged, annotated, compressed or deleted
\* between Get and Rollback
\* ------------------------------------------------------------------------
NextStale ==
    \/ \E t \in {<< ProjA >>, << Build >>} : usedIds = {} /\ Create(NextId, t)
    \/ \E id \in Ids : GetCheckpoint(id)
    \/ \E id \in Ids, tag \in TagNames : AddTag(id, tag)
    \/ \E id \in Ids, note \in Notes : SetNote(id, note)
    \/ \E id \in Ids : Compress(id)
    \/ \E id \in Ids : Delete(id)
    \/ RollbackHandle
    \/ \E id \in Ids : RollbackByID(id)
    \/ ExtRemove(ProjA)

SpecStale == InitRestore /\ [][NextStale]_vars

\* C29: a full Rollback that ran its restore pass leaves the persisted
\* manifest as it was but for rolledBack = true: tags, note, compression
\* fields and file list are those persisted before the call, whatever the
\* age of the handle.
C29_RollbackMarksOnly ==
    [][\A id \in Ids :
         (/\ RollbackByID(id) \/ (RollbackHandle /\ handle.id = id)
          /\ last'.op = "Rollback" /\ last'.id = id
          /\ last'.err \in {"", "failed"}
          /\ manifests[id] # NoManifest)
         => manifests'[id] = [manifests[id] EXCEPT !.rolledBack = TRUE]]_vars

\* C30: when a full Rollback returns after its restore pass, with nil or
\* with "restored n files, m failed", the persisted manifest of the
\* checkpoint has rolledBack = true.
C30_RollbackAlwaysMarks ==
    [][\A id \in Ids :
         (/\ RollbackByID(id) \/ (RollbackHandle /\ handle.id = id)
          /\ last'.op = "Rollback" /\ last'.id = id
          /\ last'.err \in {"", "failed"})
         => /\ manifests'[id] # NoManifest
            /\ manifests'[id].rolledBack]_vars

\* ------------------------------------------------------------------------
\* Specification of the index across invocations: checkpoints are made,
\* tagged and deleted, the index file and the checkpoint directories are
\* changed from outside, and each new process loads the index again
\* ------------------------------------------------------------------------
NextLoad ==
    \/ \E id \in Ids : Create(id, << ProjA >>)
    \/ \E id \in Ids : Delete(id)
    \/ \E id \in Ids, tag \in TagNames : AddTag(id, tag)
    \/ \E state \in IndexFileStates : ExtIndexFile(state)
    \/ \E id \in Ids : ExtRemoveManifest(id)
    \/ \E id \in Ids : ExtRemoveCheckpoint(id)
    \/ GetLatest
    \/ NewProcess
    \/ Tick

SpecLoad == InitIndex /\ [][NextLoad]_vars

\* Load rebuilds: the file is missing, unreadable, unparseable, or counts
\* another number of entries than there are checkpoint directories
RebuildDue ==
    \/ idxFile.state \in IndexFileStates
    \/ Cardinality(IndexIds(idxFile)) # Cardinality(CheckpointDirIds(Disk))

\* C31: when a process loads the index and the index file is unreadable,
\* unparseable or counts another number of entries than there are
\* checkpoint directories, the loaded Index is the one rebuilt from the
\* manifests: it has an entry for every checkpoint with a readable manifest.
C31_LoadRebuilds ==
    [][(GetLatest /\ ~idx.loaded /\ RebuildDue)
        => /\ idx' = rebuildLocked(Disk, manifests).idx
           /\ \A id \in Ids :
                (IsDirAt(Disk, CheckpointDir(id))
                 /\ LoadManifest(manifests, id) # NoManifest)
                => idx'.entries[id] # NoEntry]_vars

\* the checkpoint directories that hold a manifest
ValidIds == {id \in Ids : /\ IsDirAt(Disk, CheckpointDir(id))
                          /\ LoadManifest(manifests, id) # NoManifest}

\* a goes before b in (timestamp ascending, id ascending)
OlderFirst(a, b) ==
    \/ manifests[a].timestamp < manifests[b].timestamp
    \/ /\ manifests[a].timestamp = manifests[b].timestamp
       /\ IdRank(a) < IdRank(b)

\* C32: after a load that rebuilds the index, the Index holds one entry for
\* each checkpoint directory with a manifest and no other, the sequences
\* are 0..n-1 in the order (timestamp ascending, id ascending), and
\* nextSequence is n.
C32_RebuildNumbers ==
    [][(GetLatest /\ ~idx.loaded /\ RebuildDue
                  /\ idxFile.state # "unreadable")
        => /\ IndexIds(idx') = ValidIds
           /\ idx'.nextSeq = Cardinality(ValidIds)
           /\ {idx'.entries[id].seq : id \in ValidIds}
                 = 0..(Cardinality(ValidIds) - 1)
           /\ \A a, b \in ValidIds :
                 OlderFirst(a, b)
                 => idx'.entries[a].seq < idx'.entries[b].seq
           /\ \A id \in ValidIds :
                 idx'.entries[id].ts = manifests[id].timestamp]_vars

\* a rebuild has numbered two checkpoints of which the older one has the
\* greater ID: the younger one was tagged, so that Add and Update alone
\* had drawn three sequence numbers
C32_Witness ==
    /\ last.op = "GetLatest"
    /\ idx.loaded
    /\ IndexIds(idx) = Ids
    /\ idx.entries["c2"].ts < idx.entries["c1"].ts
    /\ idx.entries["c1"].tags # <<>>
    /\ idx.entries["c2"].seq = 0
    /\ idx.entries["c1"].seq = 1
    /\ idx.nextSeq = 2

\* C40: in every state of the Index of a process, no two entries have the
\* same sequence and nextSequence is greater than the sequence of every
\* entry.
C40_SequencesDistinct ==
    /\ \A a, b \in IndexIds(idx) :
          a # b => idx.entries[a].seq # idx.entries[b].seq
    /\ \A a \in IndexIds(idx) : idx.entries[a].seq < idx.nextSeq

\* two checkpoints were added and one of them updated: three sequence
\* numbers are drawn
C40_Witness ==
    /\ last.op = "AddTag"
    /\ idx.loaded
    /\ IndexIds(idx) = Ids
    /\ \E id \in Ids : idx.entries[id].tags # <<>>
    /\ idx.nextSeq >= 3

\* C37: when Add, Update or Remove has returned (in Create, AddTag of a
\* new tag, Delete), the persisted index document has the entries and the
\* nextSequence of the Index in memory.
C37_WriteThrough ==
    [][((\E id \in Ids : \/ Create(id, << ProjA >>)
                          \/ AddTag(id, "t")
                          \/ Delete(id))
        /\ idx' # idx)
       => /\ idxFile'.state = "ok"
          /\ idxFile'.entries = idx'.entries
          /\ idxFile'.nextSeq = idx'.nextSeq]_vars

\* ------------------------------------------------------------------------
\* Specification of checkpoints of a directory in which one file cannot be
\* backed up: it gives no read permission and cannot be hard-linked
\* ------------------------------------------------------------------------
DirTargets == {Proj, WorkingDir}

NextDirFail ==
    \/ \E t \in DirTargets : Create(NextId, << t >>)
    \/ \E m \in {M644, M000} : ExtReplaceLink(ProjLnk, "B", m)
    \/ ExtChmod(ProjA, M000)
    \/ \E id \in Ids : GetCheckpoint(id)
    \/ \E id \in Ids : Delete(id)
    \/ Tick

SpecDirFail == InitRestore /\ [][NextDirFail]_vars

\* the walk of target t reaches p: nothing from t down to p is skipped
Eligible(t, p) ==
    /\ IsPrefix(t, p)
    /\ IsFileAt(Disk, p)
    /\ \A q \in Prefixes(p) : IsPrefix(t, q) => ~shouldSkipPath(Disk, q).skip

\* BackupFile can copy or link p
CanBackUp(p) == linkOK \/ "ur" \in ModeAt(Disk, p)

\* C33: when Create is given a directory, every file of it that is
\* eligible and can itself be backed up has its backup copy and its entry
\* in the manifest, whether or not another file of the directory failed.
C33_DirectoryFailuresIsolated ==
    [][\A t \in DirTargets :
         (Create(NextId, << t >>) /\ last'.err = "")
         => \A p \in OrigPaths :
              (Eligible(t, p) /\ CanBackUp(p))
              => /\ fs'[BackupPathOf(NextId, p)].kind = "file"
                 /\ \E i \in 1..Len(manifests'[NextId].files) :
                       manifests'[NextId].files[i].originalPath = p]_vars

\* ------------------------------------------------------------------------
\* Specification of checkpoints of one file named in several ways:
\* absolute, relative to the working directory, with ".." inside, and
\* absolute with enough ".." to climb from any directory to the root
\* ------------------------------------------------------------------------
RelA == << ".", "proj", "a.txt" >>
RelUp == << ".", "..", "o.txt" >>
AbsInner == << "w", "proj", "..", "proj", "a.txt" >>
Climb(p) == << "..", "..", ".." >> \o p
PathForms ==
    {ProjA, RelA, RelUp, AbsInner, Climb(ProjA),
     Climb(BackupPathOf("c1", ProjA))}

NextPaths ==
    \/ \E t \in PathForms : Create(NextId, << t >>)
    \/ \E id \in Ids : GetCheckpoint(id)
    \/ \E id \in Ids : Delete(id)
    \/ ExtReplace(ProjA, "B", M644)
    \/ Tick

SpecPaths == InitRestore /\ [][NextPaths]_vars

\* C34: the backupPath of every entry of every manifest lies inside the
\* directory of that checkpoint and inside the directory of no other
\* checkpoint.
C34_BackupPathsInside ==
    \A id \in Ids :
        manifests[id] # NoManifest =>
            \A i \in 1..Len(manifests[id].files) :
                /\ IsPrefix(CheckpointDir(id),
                            manifests[id].files[i].backupPath)
                /\ \A other \in Ids \ {id} :
                      ~IsPrefix(CheckpointDir(other),
                                manifests[id].files[i].backupPath)

\* ------------------------------------------------------------------------
\* Specification of checkpoints made within one second: the IDs differ by
\* their random digits only, and any digits can be drawn
\* ------------------------------------------------------------------------
IdTargets == {ProjA, Climb(BackupPathOf("c1", ProjA))}

NextIds ==
    \/ \E id \in Ids, t \in IdTargets : CreateDrawn(id, DefaultCommand, << t >>)
    \/ \E id \in Ids : GetCheckpoint(id)
    \/ \E id \in Ids : Delete(id)
    \/ ExtReplace(ProjA, "B", M644)

SpecIds == InitRestore /\ [][NextIds]_vars

\* the paths inside the directory of checkpoint id
Inside(id) == {p \in Paths : IsPrefix(CheckpointDir(id), p)}

\* C35: Create draws an ID that no checkpoint has or had, and leaves the
\* directory of every other checkpoint as it is: its paths, the contents
\* of its files, its manifest.
C35_FreshIds ==
    [][\A id \in Ids :
         (\E t \in IdTargets : CreateDrawn(id, DefaultCommand, << t >>))
         => /\ id \notin usedIds
            /\ \A other \in Ids \ {id} :
                 /\ manifests'[other] = manifests[other]
                 /\ \A p \in Inside(other) :
                      /\ fs'[p].kind = fs[p].kind
                      /\ fs[p].kind = "file"
                         => inodes'[fs'[p].ino].bytes
                              = inodes[fs[p].ino].bytes]_vars

\* ------------------------------------------------------------------------
\* Specification of the four restores on a checkpoint that may have been
\* rolled back, through a handle of any age
\* ------------------------------------------------------------------------
NextFlag ==
    \/ usedIds = {} /\ Create(NextId, << ProjA >>)
    \/ \E id \in Ids : GetCheckpoint(id)
    \/ \E id \in Ids : RollbackByID(id)
    \/ RollbackHandle
    \/ RollbackSelectiveHandle({ProjA})
    \/ RollbackToPathHandle
    \/ RollbackSelectiveToPathHandle({ProjA})
    \/ ExtRemove(ProjA)
    \/ ExtReplace(ProjA, "B", M644)

SpecFlag == InitRestore /\ [][NextFlag]_vars

\* the entries a restore to another place is asked for
AskedOf(op) == IF op = "RollbackToPath" THEN OrigPaths ELSE {ProjA}

\* C39: once the persisted manifest says rolledBack, Rollback and
\* RollbackSelective are rejected and write nothing, while RollbackToPath
\* and RollbackSelectiveToPath are not rejected and put every backup copy
\* they are asked for, and can read, below the destination.
C39_FlagBlocksOriginals ==
    /\ (last.op \in {"Rollback", "RollbackSelective"} /\ last.preRolledBack)
        => (last.err = "already" /\ last.wrote = {})
    /\ (last.op \in {"RollbackToPath", "RollbackSelectiveToPath"}
        /\ last.preRolledBack)
        => /\ last.err # "already"
           /\ \A f \in Entries(last.id) :
                (~f.isDir /\ f.originalPath \in AskedOf(last.op)
                 /\ Restorable(f))
                => DestOf(DestRoot, f.originalPath) \in last.restored

\* ------------------------------------------------------------------------
\* Specification of the tool-call server: a checkpoint of one file, the
\* file removed, and a server that reads up to MaxLines requests
\* ------------------------------------------------------------------------
NextServer ==
    \/ /\ server.state = "off"
       /\ \E id \in Ids : Create(id, << ProjA >>)
    \/ /\ server.state = "off"
       /\ ExtRemove(ProjA)
    \/ NewServer
    \/ \E line \in RequestLines : Serve(line)
    \/ \E tail \in RequestLines \cup {NoLine} : EndOfInput(tail, "EOF")
    \/ EndOfInput(NoLine, "EIO")

SpecServer == InitIndex /\ [][NextServer]_vars

\* the lines of input that ask for something, in the order of the input:
\* the whole lines and, at the end of input, the line no newline ended
Asked ==
    server.lines \o (IF server.tail = NoLine THEN <<>> ELSE << server.tail >>)
NeedReply(i) ==
    ~(Asked[i].json /\ Asked[i].method = "notifications/initialized")
RECURSIVE Requests(_)
Requests(n) ==
    IF n = 0 THEN <<>>
    ELSE Requests(n - 1) \o (IF NeedReply(n) THEN << n >> ELSE <<>>)

\* the response to the request on line n is the one the line calls for
Answers(resp, n) ==
    IF ~Asked[n].json
    THEN resp.type = "error" /\ resp.code = -32700
    ELSE /\ resp.id = n
         /\ IF Asked[n].method \in (Methods \ {"bogus"}) \cup {"tools/call"}
            THEN resp.type = "result"
                 \/ (resp.type = "error" /\ resp.code \notin {-32700, -32601})
            ELSE resp.type = "error" /\ resp.code = -32601

\* C38: what the server has written is one response for each request line
\* read, in the order of the lines: error -32700 for a line that is no
\* JSON, error -32601 for an unknown method, a result or another error
\* for any other request, nothing for notifications/initialized; nothing
\* else is on its output, and Run returns no error at end of input
C38_OneResponsePerLine ==
    /\ Len(server.out) = Len(Requests(Len(Asked)))
    /\ \A k \in 1..Len(server.out) :
         k <= Len(Requests(Len(Asked)))
           => Answers(server.out[k], Requests(Len(Asked))[k])
    /\ (last.op = "Run" /\ last.err = "EOF") => server.ret = ""

\* ------------------------------------------------------------------------
\* Specification of the goroutines: an empty checkpoints directory, two
\* goroutines, MaxCalls calls of Index methods each
\* ------------------------------------------------------------------------
NextThreads ==
    \/ \E t \in Threads, op \in IndexOps, id \in Ids : Call(t, op, id)
    \/ \E t \in Threads : Lock(t)
    \/ \E t \in Threads : AddSeq(t)
    \/ \E t \in Threads : AddBump(t)
    \/ \E t \in Threads : AddStore(t)
    \/ \E t \in Threads : RemoveDelete(t)
    \/ \E t \in Threads : SaveStep(t)
    \/ \E t \in Threads : Unlock(t)
    \/ \E t \in Threads : RLock(t)
    \/ \E t \in Threads : ReadEntries(t)
    \/ \E t \in Threads : RUnlock(t)

SpecThreads == InitIndex /\ [][NextThreads]_vars

\* id is in the Index after the mutations of log, applied one at a time
Present(log, id) ==
    \E i \in 1..Len(log) :
        /\ log[i] = << "Add", id >>
        /\ \A j \in (i + 1)..Len(log) : log[j][2] # id
ViewIds(view) == {view[i].id : i \in 1..Len(view)}

\* C36: with goroutines calling Add, Update, Remove and ListEntries at the
\* same time, the Index between mutations holds what the mutations that
\* returned give when applied one after the other (no entry is lost),
\* no sequence number is handed out twice and no two entries carry the
\* same one, and a reader runs only between mutations and sees what the
\* mutations that had returned by then give
C36_OneAtATime ==
    /\ (\A t \in Threads : threads.th[t].pc \notin Mutating)
         => IndexIds(idx) = {id \in Ids : Present(threads.log, id)}
    /\ \A i, j \in 1..Len(threads.drawn) :
         threads.drawn[i] = threads.drawn[j] => i = j
    /\ \A a, b \in IndexIds(idx) :
         a # b => idx.entries[a].seq # idx.entries[b].seq
    /\ \A t \in Threads :
         /\ threads.th[t].pc \in Reading
              => \A u \in Threads : threads.th[u].pc \notin Mutating
         /\ threads.th[t].view # NoView
              => ViewIds(threads.th[t].view)
                 = {id \in Ids :
                      Present(SubSeq(threads.log, 1, threads.th[t].at), id)}

\* one goroutine is in the middle of its second Add, the other one has
\* listed the first entry and waits for the mutex
C36_Witness ==
    /\ threads.th["t1"].pc = "store"
    /\ threads.th["t2"].pc \in {"lock", "rlock"}
    /\ threads.log = << << "Add", "c1" >> >>
    /\ ViewIds(threads.th["t2"].view) = {"c1"}
    /\ threads.th["t1"].cp.id = "c2"
    /\ threads.mu.writer = "t1"
====
